---- MODULE Spec2Model ----
(***************************************************************************)
(* Router-Mode control plane of wg-quickrs: the persisted ModeState, the   *)
(* kernel's policy-routing rules and per-peer tables, the WireGuard        *)
(* allowed-ips, the exit-node arbitration, the health monitor and the     *)
(* configuration handlers that drive them.                                 *)
(*                                                                         *)
(* The kernel and the wg tool are the environment.  `ip rule` keeps an     *)
(* ordered list (by priority, insertion order among equal priorities);     *)
(* `ip rule show` is taken to print every selector a rule was added with.  *)
(* An Option<T> of the code is a set with at most one element.             *)
(***************************************************************************)
EXTENDS Integers, Sequences, FiniteSets, TLC

\* ---------------------------------------------------------------- bounds
\* Largest value of the monitor's clock, in seconds.
MaxTime == 68
\* Number of mutating API requests one behaviour of a handler spec may issue.
MaxRequests == 5
\* Number of API requests one behaviour of the monitor spec may issue.
MaxMonitorRequests == 1
\* Number of failed pings in one behaviour of the monitor spec.
MaxPingFailures == 8
\* API requests arrive in the first MaxRequestTime seconds of a monitor run.
MaxRequestTime == 4
\* Pings fail only in the first MaxEventTime seconds of a
\* behaviour of the monitor spec; afterwards the monitor runs undisturbed.
MaxEventTime == 7

\* ------------------------------------------------------- program constants
TABLE_ID_MIN == 1000
TABLE_ID_MAX == 9999
PBR_PRIORITY_BASE == 10000
EXIT_PRIORITY_BASE == 20000
CONSECUTIVE_FAILURES_THRESHOLD == 3
FAILBACK_STABILITY_SECS == 60
PING_HISTORY_SIZE == 60
HEALTH_MONITOR_INTERVAL_SECS == 1
RESERVATION_TTL_SECS == 600

\* ------------------------------------------------------------ the universe
ThisPeer == "R"
PeerIds == {"A", "B", "C"}
\* Uuid order of the peers: BTreeMap iteration order and get_connection_id.
UuidOrder == <<"A", "B", "R", "C">>
ThisAddress == "10.0.0.1"
Addresses == {"10.0.0.2", "10.0.0.3", "10.0.0.4"}
WgInterface == "wg0"
WgSubnet == "10.0.0.0/24"
LanInterface == "eth0"
DefaultRoute == "0.0.0.0/0"
LanCidrs == <<"192.168.1.0/24", "192.168.2.0/24">>

None == {}
Some(x) == {x}
TheOne(S) == CHOOSE x \in S : TRUE

Rank(p) == CHOOSE i \in 1..Len(UuidOrder) : UuidOrder[i] = p
Host(addr) == addr \o "/32"

RECURSIVE Concat(_)
Concat(ss) == IF ss = <<>> THEN <<>> ELSE Head(ss) \o Concat(Tail(ss))

RECURSIVE SortedSeq(_)
\* The peers of a set in uuid (BTreeMap) order.
SortedSeq(S) ==
  IF S = {} THEN <<>>
  ELSE LET m == CHOOSE x \in S : \A y \in S : Rank(x) <= Rank(y)
       IN <<m>> \o SortedSeq(S \ {m})

Range(s) == {s[i] : i \in 1..Len(s)}

\* ------------------------------------------------------------- environment
\* One `ip rule`: selectors as given on the command line ("" when absent),
\* lookup "main" or the table id in decimal.
Rule(prio, from, iif, to, lookup) ==
  [priority |-> prio, from |-> from, iif |-> iif, to |-> to, lookup |-> lookup]

RuleExists(rules, r) == \E i \in 1..Len(rules) : rules[i] = r

\* ip rule add ... priority P: EEXIST for an identical rule; otherwise the
\* rule goes after the rules of priority <= P.
ip_rule_add(rules, r) ==
  IF RuleExists(rules, r) THEN rules
  ELSE LET k == Cardinality({i \in 1..Len(rules) : rules[i].priority <= r.priority})
       IN SubSeq(rules, 1, k) \o <<r>> \o SubSeq(rules, k + 1, Len(rules))

RemoveAt(s, i) == SubSeq(s, 1, i - 1) \o SubSeq(s, i + 1, Len(s))

\* ip rule del priority P: removes the first rule of that priority.
ip_rule_del_priority(rules, prio) ==
  LET hits == {i \in 1..Len(rules) : rules[i].priority = prio}
  IN IF hits = {} THEN rules
     ELSE RemoveAt(rules, CHOOSE i \in hits : \A j \in hits : i <= j)

\* ip rule del <selectors> lookup T: removes the first rule with them.
ip_rule_del(rules, from, iif, to, lookup) ==
  LET hits == {i \in 1..Len(rules) :
                 /\ rules[i].from = from /\ rules[i].iif = iif
                 /\ rules[i].to = to /\ rules[i].lookup = lookup}
  IN IF hits = {} THEN rules
     ELSE RemoveAt(rules, CHOOSE i \in hits : \A j \in hits : i <= j)

\* Table ids the model can hand out: the probe starts at TABLE_ID_MIN and
\* there are never more tables than peers.
TableIds == TABLE_ID_MIN..(TABLE_ID_MIN + Cardinality(PeerIds))

\* str.parse::<u32>() of a lookup target.
ParseU32(str) == {n \in TableIds : ToString(n) = str}

\* parse_ip_rules over the lines of `ip rule show` (a rule without a source
\* selector prints "from all").
parse_ip_rules(rules) ==
  [i \in 1..Len(rules) |->
     [priority |-> rules[i].priority,
      table_id |-> ParseU32(rules[i].lookup),
      from     |-> IF rules[i].from = "" THEN Some("all") ELSE Some(rules[i].from),
      to       |-> IF rules[i].to = "" THEN None ELSE Some(rules[i].to),
      iif      |-> IF rules[i].iif = "" THEN None ELSE Some(rules[i].iif)]]

\* wg set <iface> peer <key> allowed-ips <list>: replaces the peer's list;
\* a prefix belongs to one peer at a time.  Fails when the interface is down.
wg_set(wg, up, peer, ips) ==
  IF ~up THEN wg
  ELSE [q \in (DOMAIN wg) \cup {peer} |->
          IF q = peer THEN ips ELSE wg[q] \ ips]

\* ------------------------------------------------------------------ config
\* get_connection_id: the larger uuid is side a.
get_connection_id(p1, p2) ==
  IF Rank(p1) > Rank(p2) THEN [a |-> p1, b |-> p2] ELSE [a |-> p2, b |-> p1]

parse_lan_cidrs(segments) == SelectSeq(segments, LAMBDA x : x # "")

PeerSeq(network) == SortedSeq(DOMAIN network.peers)
OtherPeerSeq(network) == SelectSeq(PeerSeq(network), LAMBDA p : p # ThisPeer)

get_peer_advertised_routes(peer_id, network) ==
  (IF peer_id \in DOMAIN network.peers
     THEN {Host(network.peers[peer_id].address)} ELSE {})
  \cup UNION {IF c.a = peer_id THEN network.connections[c].allowed_ips_b_to_a
              ELSE IF c.b = peer_id THEN network.connections[c].allowed_ips_a_to_b
              ELSE {} : c \in DOMAIN network.connections}

get_peers_with_default_route(network) ==
  SelectSeq(OtherPeerSeq(network),
            LAMBDA p : DefaultRoute \in get_peer_advertised_routes(p, network))

\* The peers other than the router that advertise the default route.
Backups(net) == Range(get_peers_with_default_route(net))

\* --------------------------------------------------------------- ModeState
\* load_mode_state() of the file; the prefix map only ever holds the
\* default route.
ActivePeer(state) ==
  {state.prefix_active_backup[k].active_peer_id :
     k \in DOMAIN state.prefix_active_backup}

get_exit_node(file) ==
  IF file = None THEN None ELSE ActivePeer(TheOne(file))

get_primary_exit_node(file) ==
  IF file = None THEN None ELSE TheOne(file).primary_exit_node

get_auto_failover(file) ==
  IF file = None THEN FALSE ELSE TheOne(file).auto_failover

LanCidrsOf(state) ==
  IF state.lan_cidr = None THEN <<>> ELSE parse_lan_cidrs(TheOne(state.lan_cidr))

has_lan_access(state, p) ==
  IF p \in DOMAIN state.peer_lan_access THEN state.peer_lan_access[p] ELSE TRUE

\* ------------------------------------------------------- shell commands
Add(prio, from, iif, to, lookup) ==
  [op |-> "add", r |-> Rule(prio, from, iif, to, lookup)]
Del(from, iif, to, lookup) ==
  [op |-> "del", r |-> Rule(0, from, iif, to, lookup)]
DelPrio(prio) ==
  [op |-> "delprio", r |-> Rule(prio, "", "", "", "")]

\* One `ip rule` command whose exit status the caller ignores.
shell_cmd(rules, cmd) ==
  CASE cmd.op = "add" -> ip_rule_add(rules, cmd.r)
    [] cmd.op = "del" ->
         ip_rule_del(rules, cmd.r.from, cmd.r.iif, cmd.r.to, cmd.r.lookup)
    [] OTHER -> ip_rule_del_priority(rules, cmd.r.priority)

RECURSIVE RunCmds(_, _)
RunCmds(rules, cmds) ==
  IF cmds = <<>> THEN rules
  ELSE RunCmds(shell_cmd(rules, Head(cmds)), Tail(cmds))

\* A system state the routing functions work on, and their results.
Sys(file, rs, rts, w, up, calls) ==
  [ms |-> file, rules |-> rs, routes |-> rts, wg |-> w, up |-> up,
   calls |-> calls]
Ok(sys) == [ok |-> TRUE, err |-> "", sys |-> sys]
Err(sys, e) == [ok |-> FALSE, err |-> e, sys |-> sys]

\* ip route add <dst> dev <wg> table <T>, replaced when it exists.
ip_route_add(rts, up, table_id, dst) ==
  IF up THEN rts \cup {<<table_id, dst>>} ELSE rts

ip_route_flush(rts, table_id) == {r \in rts : r[1] # table_id}

\* ------------------------------------------------------ exit node (PBR)
\* The connection between a peer and this router, if any.
ConnWithThis(peer_id, network) ==
  {c \in DOMAIN network.connections :
     {c.a, c.b} = {peer_id, ThisPeer} /\ peer_id # ThisPeer}

\* Allowed-ips of the connection to the router as set_exit_node_impl reads
\* them: side a->b when the peer is side a, else b->a.
ExitConnIps(peer_id, network) ==
  UNION {IF c.a = peer_id THEN network.connections[c].allowed_ips_a_to_b
         ELSE network.connections[c].allowed_ips_b_to_a :
           c \in ConnWithThis(peer_id, network)}

\* Allowed-ips written to the old exit node: its /32 plus the non-default
\* prefixes of its connection to the router.
OldExitAllowedIps(old, network) ==
  {Host(network.peers[old].address)}
  \cup (ExitConnIps(old, network)
          \ {DefaultRoute, Host(network.peers[ThisPeer].address)})

\* Mutant of NewExitAllowedIps: the default route is not appended.
NewExitAllowedIpsKept(peer_id, network) ==
  LET current == ExitConnIps(peer_id, network) \ {DefaultRoute}
  IN IF current = {} THEN {Host(network.peers[peer_id].address)} ELSE current

\* Allowed-ips written to the new exit node.
NewExitAllowedIps(peer_id, network) ==
  LET current == ExitConnIps(peer_id, network) \ {DefaultRoute}
  IN (IF current = {} THEN {Host(network.peers[peer_id].address)} ELSE current)
       \cup {DefaultRoute}

\* Deletions, by priority, of the default-route rules of a table found in a
\* snapshot; a rule from the wg subnet matches both tests and is deleted twice.
OldExitRuleCmds(all_rules, old_table_id) ==
  Concat([i \in 1..Len(all_rules) |->
    (IF /\ all_rules[i].to = Some(DefaultRoute)
        /\ all_rules[i].table_id = Some(old_table_id)
        /\ all_rules[i].priority >= EXIT_PRIORITY_BASE
       THEN <<DelPrio(all_rules[i].priority)>> ELSE <<>>)
    \o
    (IF /\ all_rules[i].from = Some(WgSubnet)
        /\ all_rules[i].iif = Some(WgInterface)
        /\ all_rules[i].to = Some(DefaultRoute)
        /\ all_rules[i].table_id = Some(old_table_id)
        /\ all_rules[i].priority >= EXIT_PRIORITY_BASE
       THEN <<DelPrio(all_rules[i].priority)>> ELSE <<>>)])

\* Per-peer LAN rule deletions by selector, one per peer of the network.
PeerLanDelCmds(network, lan_cidr) ==
  [j \in 1..Len(OtherPeerSeq(network)) |->
     Del(Host(network.peers[OtherPeerSeq(network)[j]].address),
         WgInterface, lan_cidr, "main")]

\* Removal of the LAN exception rules of the old exit node.
OldLanExceptionCmds(lan_cidrs, network) ==
  Concat([k \in 1..Len(lan_cidrs) |->
    <<Del("", LanInterface, lan_cidrs[k], "main"),
      Del(WgSubnet, WgInterface, lan_cidrs[k], "main")>>
    \o PeerLanDelCmds(network, lan_cidrs[k])])

\* The LAN exception block of set_exit_node_impl for one exit priority.
LanExceptionCmds(all_rules, state, network, priority) ==
  LET lan_cidrs == LanCidrsOf(state)
      exception_priority == priority - 1
      wg_peer_lan_base_priority == exception_priority - 100
      others == OtherPeerSeq(network)
  IN Concat([k \in 1..Len(lan_cidrs) |->
       <<Del("", LanInterface, lan_cidrs[k], "main"),
         Add(exception_priority - (k - 1), "", LanInterface, lan_cidrs[k], "main"),
         Del(WgSubnet, WgInterface, lan_cidrs[k], "main")>>
       \o Concat([i \in 1..Len(all_rules) |->
            IF /\ all_rules[i].iif = Some(WgInterface)
               /\ all_rules[i].to = Some(lan_cidrs[k])
               /\ all_rules[i].table_id = None
               /\ all_rules[i].priority >= wg_peer_lan_base_priority
               /\ all_rules[i].priority < exception_priority
              THEN <<DelPrio(all_rules[i].priority)>> ELSE <<>>])
       \o PeerLanDelCmds(network, lan_cidrs[k])
       \o Concat([j \in 1..Len(others) |->
            IF has_lan_access(state, others[j])
              THEN <<Add(wg_peer_lan_base_priority + ((k - 1) * 100) + (j - 1),
                         Host(network.peers[others[j]].address),
                         WgInterface, lan_cidrs[k], "main")>>
              ELSE <<>>])])

\* Deletions, by priority, of a table's default-route rules in the exit band.
OwnDefaultRuleCmds(parsed, table_id) ==
  Concat([i \in 1..Len(parsed) |->
    IF /\ parsed[i].to = Some(DefaultRoute)
       /\ parsed[i].table_id = Some(table_id)
       /\ parsed[i].priority >= EXIT_PRIORITY_BASE
      THEN <<DelPrio(parsed[i].priority)>> ELSE <<>>])

\* Deletions of this table's own default rules found in the snapshot.
OwnExitRuleCmds(all_rules, table_id, wg_rule) ==
  Concat([i \in 1..Len(all_rules) |->
    IF /\ (IF wg_rule
             THEN /\ all_rules[i].from = Some(WgSubnet)
                  /\ all_rules[i].iif = Some(WgInterface)
             ELSE all_rules[i].iif = Some(LanInterface))
       /\ all_rules[i].to = Some(DefaultRoute)
       /\ all_rules[i].table_id = Some(table_id)
       /\ all_rules[i].priority >= EXIT_PRIORITY_BASE
      THEN <<DelPrio(all_rules[i].priority)>> ELSE <<>>])

\* Priority and rule of a table's exit rule for the LAN interface.
ExitPriority(table_id) == EXIT_PRIORITY_BASE + (table_id % 1000)
ExitRule(table_id) ==
  Rule(ExitPriority(table_id), "", LanInterface, DefaultRoute, ToString(table_id))

\* The table of the exit node recorded in the state, if it has one.
OldExitTable(state) ==
  {state.peer_table_ids[p] : p \in ActivePeer(state) \cap DOMAIN state.peer_table_ids}

\* Cleanup of the old exit node's rules when it is another table.
remove_old_exit_rules(rules, all_rules, state, table_id, network) ==
  IF OldExitTable(state) # None /\ OldExitTable(state) # Some(table_id)
    THEN RunCmds(rules,
           OldExitRuleCmds(all_rules, TheOne(OldExitTable(state)))
           \o OldLanExceptionCmds(LanCidrsOf(state), network))
    ELSE rules

\* wg set of the old exit node: its allowed-ips without the default route.
strip_old_exit_node(sys, state, peer_id, network) ==
  IF /\ ActivePeer(state) # None /\ ActivePeer(state) # Some(peer_id)
     /\ ActivePeer(state) \subseteq DOMAIN network.peers
    THEN wg_set(sys.wg, sys.up, TheOne(ActivePeer(state)),
                OldExitAllowedIps(TheOne(ActivePeer(state)), network))
    ELSE sys.wg

\* The state that is saved before the new rules are installed.
ExitNodeState(state, peer_id, network) ==
  [state EXCEPT !.prefix_active_backup =
     (DefaultRoute :>
        [active_peer_id |-> peer_id,
         backup_peer_ids |->
           SelectSeq(get_peers_with_default_route(network),
                     LAMBDA q : q # peer_id)]) @@ @]

\* The LAN exceptions, and the removal of the table's own LAN exit rule.
lan_exception_rules(rules, all_rules, state, network, table_id) ==
  RunCmds(rules,
    LanExceptionCmds(all_rules, state, network, ExitPriority(table_id))
    \o OwnExitRuleCmds(all_rules, table_id, FALSE)
    \o <<Del("", LanInterface, DefaultRoute, ToString(table_id))>>)

\* EEXIST on the add of the exit rule: the rule is deleted first.
delete_existing_rule(rules, r) ==
  IF RuleExists(rules, r)
    THEN ip_rule_del(rules, r.from, r.iif, r.to, r.lookup)
    ELSE rules

\* The exit rule of the LAN interface, then that of the WireGuard subnet.
add_exit_rules(rules, all_rules, table_id) ==
  RunCmds(ip_rule_add(rules, ExitRule(table_id)),
    OwnExitRuleCmds(all_rules, table_id, TRUE)
    \o <<Add(ExitPriority(table_id) + 1, WgSubnet, WgInterface, DefaultRoute,
             ToString(table_id))>>)

\* The default route into the table and the allowed-ips of the new exit node.
install_exit_route(sys, state1, rules4, wg1, peer_id, table_id, network) ==
  IF ~sys.up
    THEN Err(Sys(Some(state1), rules4, sys.routes, wg1, sys.up, sys.calls),
             "RouteInstallationError")
  ELSE IF peer_id \notin DOMAIN network.peers
    THEN Err(Sys(Some(state1), rules4,
                 ip_route_add(sys.routes, sys.up, table_id, DefaultRoute),
                 wg1, sys.up, sys.calls), "TableIdError")
  ELSE Ok(Sys(Some(state1), rules4,
              ip_route_add(sys.routes, sys.up, table_id, DefaultRoute),
              wg_set(wg1, sys.up, peer_id, NewExitAllowedIps(peer_id, network)),
              sys.up, sys.calls))

\* The add of the exit rule fails when the rule is still there.
install_exit_rules(sys, state1, rules2b, wg1, all_rules, peer_id, table_id, network) ==
  IF RuleExists(rules2b, ExitRule(table_id))
    THEN Err(Sys(Some(state1), rules2b, sys.routes, wg1, sys.up, sys.calls),
             "IpRuleError")
  ELSE install_exit_route(sys, state1, add_exit_rules(rules2b, all_rules, table_id),
                          wg1, peer_id, table_id, network)

\* set_exit_node_impl once the state is loaded and the table id is known:
\* old rules removed, old exit node stripped, state saved, rules installed.
switch_exit_node(sys, state, all_rules, peer_id, table_id, network) ==
  install_exit_rules(
    sys, ExitNodeState(state, peer_id, network),
    delete_existing_rule(
      lan_exception_rules(
        remove_old_exit_rules(sys.rules, all_rules, state, table_id, network),
        all_rules, state, network, table_id),
      ExitRule(table_id)),
    strip_old_exit_node(sys, state, peer_id, network),
    all_rules, peer_id, table_id, network)

set_exit_node_impl(sys, peer_id, network) ==
  IF sys.ms = None THEN Err(sys, "PersistenceError")
  ELSE IF peer_id \notin DOMAIN TheOne(sys.ms).peer_table_ids
    THEN Err(sys, "TableIdError")
  ELSE switch_exit_node(sys, TheOne(sys.ms), parse_ip_rules(sys.rules), peer_id,
                        TheOne(sys.ms).peer_table_ids[peer_id], network)

\* The call and its outcome, noted for the properties about set_exit_node.
log_exit_call(sys, peer_id, r) ==
  [r EXCEPT !.sys.calls =
     Append(@, [peer |-> peer_id, ok |-> r.ok,
                prev |-> get_exit_node(sys.ms),
                active |-> get_exit_node(r.sys.ms),
                with_default |->
                  {q \in DOMAIN r.sys.wg : DefaultRoute \in r.sys.wg[q]}])]

set_exit_node(sys, peer_id, network) ==
  log_exit_call(sys, peer_id, set_exit_node_impl(sys, peer_id, network))

\* ------------------------------------------------ per-peer routing tables
\* Route strings of the model in the order Vec::sort gives them.
RouteOrder ==
  <<DefaultRoute, "10.0.0.2/32", "10.0.0.3/32", "10.0.0.4/32", "10.9.9.1/24",
    "192.168.50.0/24">>

SortedRoutes(S) == SelectSeq(RouteOrder, LAMBDA r : r \in S)

\* validate_route: the default route, a /32, or a prefix whose address is
\* its network address.
validate_route(route) == route # "10.9.9.1/24"

\* The first free id of the linear probe from TABLE_ID_MIN.
NextFreeTableId(state) ==
  LET used == {state.peer_table_ids[p] : p \in DOMAIN state.peer_table_ids}
      free == {t \in TABLE_ID_MIN..TABLE_ID_MAX : t \notin used}
  IN IF free = {} THEN None
     ELSE Some(CHOOSE t \in free : \A u \in free : t <= u)

create_peer_routing_table(sys, peer_id) ==
  IF sys.ms = None THEN Err(sys, "PersistenceError")
  ELSE LET state == TheOne(sys.ms)
       IN IF peer_id \in DOMAIN state.peer_table_ids THEN Ok(sys)
          ELSE IF NextFreeTableId(state) = None THEN Err(sys, "TableIdError")
          ELSE Ok([sys EXCEPT !.ms = Some([state EXCEPT !.peer_table_ids =
                     (peer_id :> TheOne(NextFreeTableId(state))) @@ @])])

get_peer_table_id(file, peer_id) ==
  IF file = None THEN None
  ELSE {TheOne(file).peer_table_ids[p] :
          p \in {peer_id} \cap DOMAIN TheOne(file).peer_table_ids}

install_peer_routes(sys, table_id, routes) ==
  [sys EXCEPT !.routes =
     IF sys.up
       THEN @ \cup {<<table_id, r>> : r \in {x \in routes : validate_route(x)}}
       ELSE @]

\* One rule per non-default route, all at the table's priority; an existing
\* identical rule is deleted and added again.
RECURSIVE install_pbr_rules_for_peer(_, _, _)
install_pbr_rules_for_peer(rules, table_id, specific) ==
  IF specific = <<>> THEN rules
  ELSE LET r == Rule(PBR_PRIORITY_BASE + (table_id % 1000), "", LanInterface,
                     Head(specific), ToString(table_id))
           added == IF RuleExists(rules, r)
                      THEN ip_rule_add(ip_rule_del(rules, "", LanInterface,
                                         Head(specific), ToString(table_id)), r)
                      ELSE ip_rule_add(rules, r)
       IN install_pbr_rules_for_peer(added, table_id, Tail(specific))

remove_pbr_rules_for_peer(rules, table_id) ==
  LET parsed == parse_ip_rules(rules)
  IN RunCmds(rules, Concat([i \in 1..Len(parsed) |->
       IF /\ parsed[i].table_id = Some(table_id)
          /\ parsed[i].priority < EXIT_PRIORITY_BASE
         THEN <<DelPrio(parsed[i].priority)>> ELSE <<>>]))

update_pbr_rules_for_peer(sys, peer_id, network) ==
  IF get_peer_table_id(sys.ms, peer_id) = None THEN sys
  ELSE LET table_id == TheOne(get_peer_table_id(sys.ms, peer_id))
       IN [sys EXCEPT !.rules =
             install_pbr_rules_for_peer(
               remove_pbr_rules_for_peer(@, table_id), table_id,
               SortedRoutes(get_peer_advertised_routes(peer_id, network)
                              \ {DefaultRoute}))]

\* --------------------------------------------------------- LAN access
PeerIndex(peer_id, network) ==
  Cardinality({q \in DOMAIN network.peers :
                 q # ThisPeer /\ Rank(q) < Rank(peer_id)})

\* The fixed-base per-peer rule of set_peer_lan_access and
\* ensure_peer_lan_access_rule: delete by selector, then add.
PeerLanAddCmds(peer_id, network, lan_cidrs) ==
  Concat([k \in 1..Len(lan_cidrs) |->
    <<Del(Host(network.peers[peer_id].address), WgInterface, lan_cidrs[k], "main"),
      Add(((EXIT_PRIORITY_BASE - 1) - 100) + ((k - 1) * 100)
            + PeerIndex(peer_id, network),
          Host(network.peers[peer_id].address), WgInterface, lan_cidrs[k],
          "main")>>])

set_peer_lan_access(sys, peer_id, has_access, network) ==
  IF sys.ms = None THEN Err(sys, "PersistenceError")
  ELSE
  LET state == [TheOne(sys.ms) EXCEPT !.peer_lan_access =
                  (peer_id :> has_access) @@ @]
      saved == [sys EXCEPT !.ms = Some(state)]
      lan_cidrs == LanCidrsOf(state)
  IN IF peer_id \notin DOMAIN network.peers THEN Err(saved, "PersistenceError")
     ELSE IF state.lan_cidr = None THEN Err(saved, "PersistenceError")
     ELSE IF has_access
       THEN Ok([saved EXCEPT !.rules =
                  RunCmds(@, PeerLanAddCmds(peer_id, network, lan_cidrs))])
     ELSE Ok([saved EXCEPT !.rules =
                RunCmds(@, [k \in 1..Len(lan_cidrs) |->
                  Del(Host(network.peers[peer_id].address), WgInterface,
                      lan_cidrs[k], "main")])])

ensure_peer_lan_access_rule(sys, peer_id, network) ==
  IF peer_id = ThisPeer \/ sys.ms = None THEN sys
  ELSE IF TheOne(sys.ms).lan_cidr = None THEN sys
  ELSE IF peer_id \notin DOMAIN network.peers THEN sys
  ELSE IF has_lan_access(TheOne(sys.ms), peer_id)
    THEN [sys EXCEPT !.rules =
            RunCmds(@, PeerLanAddCmds(peer_id, network,
                                      LanCidrsOf(TheOne(sys.ms))))]
  ELSE sys

\* ------------------------------------------------- route updates, removal
\* The table is flushed and the peer's routes are installed again.
reinstall_peer_routes(sys, table_id, routes0) ==
  install_peer_routes([sys EXCEPT !.routes = ip_route_flush(@, table_id)],
                      table_id, routes0)

\* A peer that advertises the default route becomes the exit node when
\* there is none.
auto_select_exit_node(sys, peer_id, routes0, network) ==
  IF DefaultRoute \in routes0 /\ get_exit_node(sys.ms) = None
    THEN set_exit_node(sys, peer_id, network).sys
    ELSE sys

\* With an exit node set, the peer's LAN-access rule is ensured.
ensure_lan_rule_with_exit(sys, peer_id, network) ==
  IF get_exit_node(sys.ms) # None
    THEN ensure_peer_lan_access_rule(sys, peer_id, network)
    ELSE sys

update_peer_routes(sys, peer_id, network) ==
  IF get_peer_table_id(sys.ms, peer_id) = None THEN sys
  ELSE ensure_lan_rule_with_exit(
         auto_select_exit_node(
           update_pbr_rules_for_peer(
             reinstall_peer_routes(sys, TheOne(get_peer_table_id(sys.ms, peer_id)),
                                   get_peer_advertised_routes(peer_id, network)),
             peer_id, network),
           peer_id, get_peer_advertised_routes(peer_id, network), network),
         peer_id, network)

\* Routes and PBR rules of the removed peer's table.
flush_peer_table(sys, table_id) ==
  [sys EXCEPT !.routes = ip_route_flush(@, table_id),
              !.rules = remove_pbr_rules_for_peer(@, table_id)]

\* The exit rules of the removed table and the LAN exception rules.
remove_exit_rules(rules, state, table_id, network) ==
  RunCmds(rules,
    OwnDefaultRuleCmds(parse_ip_rules(rules), table_id)
    \o OldLanExceptionCmds(LanCidrsOf(state), network))

\* The next peer with a default route takes over, if there is one.
reselect_exit_node(sys, peer_id, network) ==
  IF SelectSeq(get_peers_with_default_route(network), LAMBDA q : q # peer_id) = <<>>
    THEN sys
    ELSE set_exit_node(sys,
           Head(SelectSeq(get_peers_with_default_route(network),
                          LAMBDA q : q # peer_id)),
           network).sys

\* The state loaded before the exit node is reselected, edited and saved at
\* the end.
StateWithoutPeer(state, peer_id) ==
  [state EXCEPT
     !.prefix_active_backup = IF ActivePeer(state) = Some(peer_id) THEN <<>> ELSE @,
     !.peer_table_ids = [q \in (DOMAIN @) \ {peer_id} |-> @[q]]]

remove_loaded_peer(s1, state, peer_id, table_id, network) ==
  Ok([(IF ActivePeer(state) # Some(peer_id) THEN s1
       ELSE reselect_exit_node(
              [s1 EXCEPT !.rules = remove_exit_rules(@, state, table_id, network)],
              peer_id, network))
      EXCEPT !.ms = Some(StateWithoutPeer(state, peer_id))])

remove_flushed_peer(s1, peer_id, table_id, network) ==
  IF s1.ms = None THEN Err(s1, "PersistenceError")
  ELSE remove_loaded_peer(s1, TheOne(s1.ms), peer_id, table_id, network)

remove_peer_routing_table_impl(sys, peer_id, table_id, network) ==
  remove_flushed_peer(flush_peer_table(sys, table_id), peer_id, table_id, network)

\* -------------------------------------------------- WireGuard interface
\* Allowed-ips of the stripped config of this peer (get_peer_wg_config): per
\* connection of the router, side a->b when the router is side a, without
\* the default route, the other peer's /32 when nothing is left.
StrippedAllowedIps(c, network) ==
  LET other == IF c.a = ThisPeer THEN c.b ELSE c.a
      ips == (IF c.a = ThisPeer THEN network.connections[c].allowed_ips_a_to_b
              ELSE network.connections[c].allowed_ips_b_to_a) \ {DefaultRoute}
  IN IF ips = {} THEN {Host(network.peers[other].address)} ELSE ips

ThisConnSeq(network) ==
  LET cs == {c \in DOMAIN network.connections : ThisPeer \in {c.a, c.b}}
      others == SortedSeq({IF c.a = ThisPeer THEN c.b ELSE c.a : c \in cs})
  IN [i \in 1..Len(others) |-> get_connection_id(ThisPeer, others[i])]

RECURSIVE wg_syncconf(_, _, _)
\* wg syncconf: exactly the peers of the file, in file order.
wg_syncconf(wgnew, conns, network) ==
  IF conns = <<>> THEN wgnew
  ELSE LET c == Head(conns)
           other == IF c.a = ThisPeer THEN c.b ELSE c.a
       IN wg_syncconf(wg_set(wgnew, TRUE, other, StrippedAllowedIps(c, network)),
                      Tail(conns), network)

\* sync_conf: syncconf, then the exit node gets the default route back.
\* The wg set after the syncconf: the exit node read from the mode state
\* gets its allowed-ips with the default route.
restore_exit_allowed_ips(synced, up, exit, network) ==
  IF exit \cap DOMAIN network.peers = None THEN synced
  ELSE wg_set(synced, up, TheOne(exit), NewExitAllowedIps(TheOne(exit), network))

sync_conf(sys, network) ==
  IF ~sys.up THEN Err(sys, "InterfaceSyncFailed")
  ELSE Ok([sys EXCEPT !.wg =
             restore_exit_allowed_ips(
               wg_syncconf(<<>>, ThisConnSeq(network), network), TRUE,
               get_exit_node(sys.ms), network)])

\* ------------------------------------------------ PATCH /api/network/config
\* Validators of the network model.
parse_and_validate_peer_name(name) == name # ""

validate_peer_address(address, network) ==
  /\ address \in Addresses
  /\ \A q \in DOMAIN network.peers : network.peers[q].address # address
  /\ address \notin DOMAIN network.reservations

remove_expired_reservations(network, t) ==
  [network EXCEPT !.reservations =
     [a \in {x \in DOMAIN @ : @[x].valid_until > t} |-> @[a]]]

WithoutPeer(network, peer_id) ==
  [network EXCEPT !.peers = [q \in (DOMAIN @) \ {peer_id} |-> @[q]]]

\* The request being processed: the config it edits in place, the system
\* state its routing calls change, and the HTTP status once it has failed.
Fail(P, status) == [P EXCEPT !.status = status]

\* update_peer_routes for an end of a connection that is not the router.
update_routes_of_end(sys, peer_id, network) ==
  IF peer_id # ThisPeer THEN update_peer_routes(sys, peer_id, network) ELSE sys

UpdateRoutesOfConn(P, c) ==
  update_routes_of_end(update_routes_of_end(P.sys, c.a, P.net), c.b, P.net)

\* The guard that is left out: scripts of any peer may be changed.
scripts_allowed(cp) == FALSE

\* Security check: the scripts of this peer are not changed remotely.
scripts_forbidden(cp) == cp.scripts # None /\ cp.id = ThisPeer

ChangedPeer(P, cp) ==
  IF cp.id \notin DOMAIN P.net.peers THEN Fail(P, 404)
  ELSE IF cp.name # None /\ ~parse_and_validate_peer_name(TheOne(cp.name))
    THEN Fail(P, 400)
  ELSE
  LET named == IF cp.name = None THEN P
               ELSE [P EXCEPT !.net.peers[cp.id].name = TheOne(cp.name)]
      old_address == P.net.peers[cp.id].address
  IN IF /\ cp.address # None
        /\ ~validate_peer_address(TheOne(cp.address), WithoutPeer(P.net, cp.id))
       THEN Fail(named, 400)
     ELSE
     LET moved == IF cp.address = None THEN named
                  ELSE [named EXCEPT !.net.peers[cp.id].address = TheOne(cp.address)]
     IN IF scripts_forbidden(cp) THEN Fail(moved, 403)
        ELSE [moved EXCEPT
                !.net.peers[cp.id].scripts =
                   IF cp.scripts = None THEN @ ELSE TheOne(cp.scripts),
                !.changed = TRUE,
                !.sys = IF /\ cp.id # ThisPeer /\ cp.address # None
                           /\ old_address # TheOne(cp.address)
                           /\ P.mode = "router"
                          THEN update_peer_routes(@, cp.id, moved.net)
                          ELSE @]

ChangedConnection(P, cc) ==
  IF cc.id \notin DOMAIN P.net.connections THEN Fail(P, 404)
  ELSE
  LET edited == [P EXCEPT
        !.net.connections[cc.id].allowed_ips_a_to_b =
           IF cc.allowed_ips_a_to_b = None THEN @ ELSE TheOne(cc.allowed_ips_a_to_b),
        !.net.connections[cc.id].allowed_ips_b_to_a =
           IF cc.allowed_ips_b_to_a = None THEN @ ELSE TheOne(cc.allowed_ips_b_to_a),
        !.changed = TRUE]
  IN IF /\ P.mode = "router"
        /\ (cc.allowed_ips_a_to_b # None \/ cc.allowed_ips_b_to_a # None)
       THEN [edited EXCEPT !.sys = UpdateRoutesOfConn(edited, cc.id)]
       ELSE edited

\* The Router-mode tail of adding a peer.
install_added_peer(sys, table_id, routes0) ==
  [install_peer_routes(sys, table_id, routes0) EXCEPT
     !.rules = install_pbr_rules_for_peer(
                 @, table_id, SortedRoutes(routes0 \ {DefaultRoute}))]

route_created_peer(sys, created, peer_id, network) ==
  IF ~created.ok THEN sys
  ELSE auto_select_exit_node(
         install_added_peer(created.sys,
                            TheOne(get_peer_table_id(created.sys.ms, peer_id)),
                            get_peer_advertised_routes(peer_id, network)),
         peer_id, get_peer_advertised_routes(peer_id, network), network)

AddedPeerRouting(sys, peer_id, network) ==
  route_created_peer(sys, create_peer_routing_table(sys, peer_id), peer_id, network)

AddedPeer(P, ap) ==
  IF ap.id \in DOMAIN P.net.peers THEN Fail(P, 403)
  ELSE IF /\ ap.address \in DOMAIN P.net.reservations
          /\ P.net.reservations[ap.address].peer_id # ap.id
    THEN Fail(P, 403)
  ELSE
  LET cleared == [P EXCEPT !.net.reservations =
                    [a \in (DOMAIN @) \ {ap.address} |-> @[a]]]
  IN IF ap.name = "" \/ ~parse_and_validate_peer_name(ap.name)
       THEN Fail(cleared, 400)
     ELSE IF ~validate_peer_address(ap.address, cleared.net) THEN Fail(cleared, 400)
     ELSE
     LET added == [cleared EXCEPT
           !.net.peers = (ap.id :> [name |-> ap.name, address |-> ap.address,
                                    scripts |-> <<>>]) @@ @,
           !.changed = TRUE]
     IN IF ap.id # ThisPeer /\ P.mode = "router"
          THEN [added EXCEPT !.sys = AddedPeerRouting(@, ap.id, added.net)]
          ELSE added

RemovedPeer(P, peer_id) ==
  IF peer_id = ThisPeer THEN Fail(P, 403)
  ELSE
     [P EXCEPT
        !.sys = IF P.mode = "router" /\ get_peer_table_id(@.ms, peer_id) # None
                  THEN remove_peer_routing_table_impl(
                         @, peer_id, TheOne(get_peer_table_id(@.ms, peer_id)),
                         P.net).sys
                  ELSE @,
        !.net.peers = [q \in (DOMAIN @) \ {peer_id} |-> @[q]],
        !.net.connections =
           [c \in {x \in DOMAIN @ : peer_id \notin {x.a, x.b}} |-> @[c]],
        !.changed = TRUE]

\* The addition without the loopback check.
AddedLoopbackConnection(P, ac) ==
  IF ac.id.a \notin DOMAIN P.net.peers \/ ac.id.b \notin DOMAIN P.net.peers
    THEN Fail(P, 400)
  ELSE IF ac.id \in DOMAIN P.net.connections THEN Fail(P, 403)
  ELSE [P EXCEPT
          !.net.connections =
             (ac.id :> [allowed_ips_a_to_b |-> ac.allowed_ips_a_to_b,
                        allowed_ips_b_to_a |-> ac.allowed_ips_b_to_a]) @@ @,
          !.changed = TRUE]

AddedConnection(P, ac) ==
  IF ac.id.a \notin DOMAIN P.net.peers \/ ac.id.b \notin DOMAIN P.net.peers
    THEN Fail(P, 400)
  ELSE IF ac.id \in DOMAIN P.net.connections \/ ac.id.a = ac.id.b
    THEN Fail(P, 403)
  ELSE
  LET added == [P EXCEPT
        !.net.connections =
           (ac.id :> [allowed_ips_a_to_b |-> ac.allowed_ips_a_to_b,
                      allowed_ips_b_to_a |-> ac.allowed_ips_b_to_a]) @@ @,
        !.changed = TRUE]
  IN IF P.mode = "router"
       THEN [added EXCEPT !.sys = UpdateRoutesOfConn(added, ac.id)]
       ELSE added

\* Routes are recomputed while the connection is still in the network.
RemovedConnection(P, c) ==
  [P EXCEPT
     !.sys = IF P.mode = "router" THEN UpdateRoutesOfConn(P, c) ELSE @,
     !.net.connections = [x \in (DOMAIN @) \ {c} |-> @[x]],
     !.changed = TRUE]

PatchStep(P, kind, item) ==
  CASE kind = "changed_peer" -> ChangedPeer(P, item)
    [] kind = "changed_connection" -> ChangedConnection(P, item)
    [] kind = "added_peer" -> AddedPeer(P, item)
    [] kind = "removed_peer" -> RemovedPeer(P, item)
    [] kind = "added_connection" -> AddedConnection(P, item)
    [] OTHER -> RemovedConnection(P, item)

RECURSIVE PatchSection(_, _, _)
\* One section of the change sum; the first failure returns.
PatchSection(P, kind, items) ==
  IF items = <<>> \/ P.status # 0 THEN P
  ELSE PatchSection(PatchStep(P, kind, Head(items)), kind, Tail(items))

\* patch_network_config on the write-locked config: the result's status is
\* 200, or the status of the early return; net and sys are what is left.
\* The sections of a change sum in the order the handler goes through them.
Sections ==
  <<"changed_peer", "changed_connection", "added_peer", "removed_peer",
    "added_connection", "removed_connection">>

SectionItems(change_sum, kind) ==
  CASE kind = "changed_peer" -> change_sum.changed_peers
    [] kind = "changed_connection" -> change_sum.changed_connections
    [] kind = "added_peer" -> change_sum.added_peers
    [] kind = "removed_peer" -> change_sum.removed_peers
    [] kind = "added_connection" -> change_sum.added_connections
    [] OTHER -> change_sum.removed_connections

RECURSIVE PatchSections(_, _, _)
PatchSections(P, change_sum, kinds) ==
  IF kinds = <<>> THEN P
  ELSE PatchSections(
         PatchSection(P, Head(kinds), SectionItems(change_sum, Head(kinds))),
         change_sum, Tail(kinds))

\* The response once the interface was synced with the new config.
synced_response(P, synced) ==
  [P EXCEPT !.status = IF synced.ok THEN 200 ELSE 500, !.sys = synced.sys]

\* After the sections: nothing to update is a 400, otherwise the config is
\* saved and the interface synced.
finish_patch(P) ==
  IF P.status # 0 THEN P
  ELSE IF ~P.changed THEN Fail(P, 400)
  ELSE synced_response(P, sync_conf(P.sys, P.net))

\* The sections of the change sum, applied in order to the locked config.
patch_sections(network, sys, mode_str, t, change_sum) ==
  PatchSections([net |-> remove_expired_reservations(network, t), sys |-> sys,
                 mode |-> mode_str, changed |-> FALSE, status |-> 0],
                change_sum, Sections)

patch_network_config(network, sys, mode_str, t, change_sum) ==
  finish_patch(patch_sections(network, sys, mode_str, t, change_sum))

\* ------------------------------------------------------- mode switching
\* Ipv4Net::from_str of one string: a single well-formed prefix.
WellFormedCidrs == Range(LanCidrs)
validate_cidr(segments) == Len(segments) = 1 /\ segments[1] \in WellFormedCidrs

\* iptables rules of Router Mode, as the set of rules present.
RouterFirewallRules(lan_cidrs) ==
  {<<"nat", lan_cidrs[k]>> : k \in 1..Len(lan_cidrs)}
  \cup {<<"nat", WgSubnet>>, <<"forward", "lan->wg">>, <<"forward", "wg->lan">>,
        <<"mss", "out">>, <<"mss", "in">>, <<"mss", "post">>}

enable_router_mode_firewall(fw, segments) ==
  IF parse_lan_cidrs(segments) = <<>> THEN fw
  ELSE fw \cup RouterFirewallRules(parse_lan_cidrs(segments))

\* The MASQUERADE rule of the WireGuard subnet is not among the removed.
disable_router_mode_firewall(fw, file) ==
  IF file = None THEN fw
  ELSE IF LanCidrsOf(TheOne(file)) = <<>> THEN fw
  ELSE fw \ (RouterFirewallRules(LanCidrsOf(TheOne(file))) \ {<<"nat", WgSubnet>>})

FreshModeState(segments) ==
  [last_mode |-> "router", lan_cidr |-> Some(segments),
   peer_table_ids |-> <<>>, prefix_active_backup |-> <<>>,
   peer_last_online_state |-> <<>>, peer_lan_access |-> <<>>,
   auto_failover |-> FALSE, primary_exit_node |-> None]

\* A whole system: config, network, tables and rules, forwarding, firewall.
World(c, net, sys, fwd, fw) ==
  [cfg |-> c, net |-> net, sys |-> sys, ip_forward |-> fwd, firewall |-> fw]
Done(w) == [ok |-> TRUE, err |-> "", w |-> w]
Refused(w, e) == [ok |-> FALSE, err |-> e, w |-> w]

\* The rules of the exit node are installed again for the new LAN CIDRs.
reapply_exit_node(sys, network) ==
  IF get_exit_node(sys.ms) = None THEN sys
  ELSE set_exit_node(sys, TheOne(get_exit_node(sys.ms)), network).sys

update_lan_cidr(w, segments) ==
  IF \E k \in 1..Len(parse_lan_cidrs(segments)) :
       parse_lan_cidrs(segments)[k] \notin WellFormedCidrs
    THEN Refused(w, "InvalidCidr")
  ELSE IF w.sys.ms = None THEN Refused(w, "PersistenceError")
  ELSE
     Done([w EXCEPT
             !.sys = reapply_exit_node(
                       [@ EXCEPT !.ms = Some([TheOne(@) EXCEPT
                                                !.lan_cidr = Some(segments)])],
                       w.net),
             !.cfg = [mode |-> "router", lan_cidr |-> Some(segments)],
             !.firewall = enable_router_mode_firewall(@, segments)])

RECURSIVE RemoveTables(_, _, _)
RemoveTables(sys, peers, network) ==
  IF peers = <<>> \/ sys.ms = None THEN sys
  ELSE IF Head(peers) \notin DOMAIN TheOne(sys.ms).peer_table_ids
    THEN RemoveTables(sys, Tail(peers), network)
  ELSE RemoveTables(
         remove_peer_routing_table_impl(
           sys, Head(peers), TheOne(sys.ms).peer_table_ids[Head(peers)],
           network).sys,
         Tail(peers), network)

\* Mutant of switch_mode's guard: the peer count is not consulted.
PeersExistNever(w) == FALSE

\* More than the router itself is configured.
PeersExist(w) == Cardinality(DOMAIN w.net.peers) > 1

\* The steps of a mode switch that the environment can fail: the sysctl
\* command, the write or removal of the state file, the write of the config.
SwitchFaults == {"none", "sysctl", "persist", "set_config"}

\* The LAN CIDR is written to the config before the state is persisted when
\* the config had none; the result of that set_config is ignored.
with_lan_cidr(c, lan_cidr, fault) ==
  IF c.lan_cidr = None /\ fault # "set_config"
    THEN [c EXCEPT !.lan_cidr = lan_cidr] ELSE c

\* Host -> Router: forwarding, firewall, state file, config, in that order.
\* A failed save of the state disables forwarding again; a failed write of
\* the config returns as it is.
switch_to_router(w, segments, fault) ==
  IF fault = "sysctl" THEN Refused(w, "RoutingError")
  ELSE IF fault = "persist"
    THEN Refused([w EXCEPT
                    !.ip_forward = FALSE,
                    !.firewall = enable_router_mode_firewall(@, segments),
                    !.cfg = with_lan_cidr(@, Some(segments), fault)],
                 "PersistenceError")
  ELSE IF fault = "set_config"
    THEN Refused([w EXCEPT
                    !.ip_forward = TRUE,
                    !.firewall = enable_router_mode_firewall(@, segments),
                    !.sys.ms = Some(FreshModeState(segments))],
                 "ConfigError")
  ELSE Done([w EXCEPT
               !.ip_forward = TRUE,
               !.firewall = enable_router_mode_firewall(@, segments),
               !.sys.ms = Some(FreshModeState(segments)),
               !.cfg = [mode |-> "router", lan_cidr |-> Some(segments)]])

\* The table loop of the switch to Host runs over the ids of the state
\* loaded first.
tables_removed(sys, network) ==
  IF sys.ms = None THEN sys
  ELSE RemoveTables(sys, SortedSeq(DOMAIN TheOne(sys.ms).peer_table_ids), network)

\* Router -> Host: firewall, forwarding, tables, state file, config.  A
\* failed removal of the state file enables forwarding again.
switch_to_host(w, fault) ==
  IF fault = "sysctl"
    THEN Refused([w EXCEPT !.firewall = disable_router_mode_firewall(@, w.sys.ms)],
                 "RoutingError")
  ELSE IF fault = "persist"
    THEN Refused([w EXCEPT
                    !.firewall = disable_router_mode_firewall(@, w.sys.ms),
                    !.ip_forward = TRUE,
                    !.sys = tables_removed(@, w.net)],
                 "PersistenceError")
  ELSE IF fault = "set_config"
    THEN Refused([w EXCEPT
                    !.firewall = disable_router_mode_firewall(@, w.sys.ms),
                    !.ip_forward = FALSE,
                    !.sys = [tables_removed(@, w.net) EXCEPT !.ms = None]],
                 "ConfigError")
  ELSE Done([w EXCEPT
               !.firewall = disable_router_mode_firewall(@, w.sys.ms),
               !.ip_forward = FALSE,
               !.sys = [tables_removed(@, w.net) EXCEPT !.ms = None],
               !.cfg = [mode |-> "host", lan_cidr |-> None]])

\* switch_mode with the step of it that fails, if any.
switch_mode_failing(w, target_mode, lan_cidr, fault) ==
  IF w.cfg.mode = target_mode /\ target_mode = "router"
    THEN IF lan_cidr # None THEN update_lan_cidr(w, TheOne(lan_cidr)) ELSE Done(w)
  ELSE IF PeersExist(w) THEN Refused(w, "PeersExist")
  ELSE IF target_mode = "router"
    THEN IF lan_cidr = None THEN Refused(w, "InvalidCidr")
         ELSE IF ~validate_cidr(TheOne(lan_cidr)) THEN Refused(w, "InvalidCidr")
         ELSE switch_to_router(w, TheOne(lan_cidr), fault)
  ELSE switch_to_host(w, fault)

switch_mode(w, target_mode, lan_cidr) ==
  switch_mode_failing(w, target_mode, lan_cidr, "none")

\* toggle_mode: the HTTP status of the switch.
toggle_mode_status(r) ==
  IF r.ok THEN 200 ELSE IF r.err = "PeersExist" THEN 403 ELSE 500

\* ------------------------------------------------------------ the state
VARIABLES
  cfg,        \* agent.router of the in-memory config: mode and lan_cidr
  network,    \* the in-memory network: peers, connections, reservations
  ms,         \* router_mode_state.json: None or Some(ModeState)
  rules,      \* the kernel's ip rules
  routes,     \* the routes of the per-peer tables: <<table, prefix>>
  wg,         \* allowed-ips of the WireGuard interface, per peer
  wgUp,       \* the WireGuard interface exists
  ipForward,  \* net.ipv4.ip_forward
  firewall,   \* iptables rules present
  now,        \* the clock, in seconds
  requests,   \* API requests served so far
  resp,       \* the last API request and its HTTP status
  exitCalls,  \* the set_exit_node calls of the last step
  cache,      \* EXIT_NODE_HEALTH_CACHE: peer -> [is_online, latency_ms]
  failures,   \* CONSECUTIVE_FAILURES: peer -> count
  pingTail,   \* the newest entries of PING_HISTORY: peer -> <<succeeded, ...>>
  tracker,    \* PRIMARY_ONLINE_SINCE: None or Some(<<peer, since>>)
  pending,    \* the health checks spawned by the last tick, in spawn order
  failedPings, \* pings that have failed so far
  upd,        \* the last health update: its peer, its report, what it did
  onlineSince, \* per peer, the times of its Offline->Online reports
  owed,       \* peers an automatic failover moved the exit role away from
  stalePrimary \* primaries that were recorded when a manual change was made

monitorVars == <<cache, failures, pingTail, tracker, pending, failedPings, upd,
                 onlineSince>>

VARIABLES
  updatedAt,  \* network.updated_at of the in-memory config
  confYml     \* conf.yml: the network it holds and that network's updated_at

confVars == <<updatedAt, confYml>>

VARIABLES
  configLock,   \* holder of the write guard of CONFIG_W_NETWORK_DIGEST, or ""
  tunnelLock,   \* holder of the write guard of WG_TUNNEL_MANAGER, or ""
  pc,           \* where the API handler, the monitor and enable_tunnel stand
  apiExit,      \* sync_conf: the exit node it read from the mode state
  monitorJob,   \* set_exit_node of the monitor: peer, network, loaded state
  tunnelJob,    \* enable_tunnel: its config, restore's config and state
  tunnelConfig, \* TunnelManager.config: the network of the last sync_conf
  switches,     \* exit-node switches the monitor has started
  firstTable    \* per peer of the network, the first table id it was given

raceVars == <<configLock, tunnelLock, pc, apiExit, monitorJob, tunnelJob,
              tunnelConfig, switches, firstTable>>

VARIABLES
  stateBytes, \* router_mode_state.json: "json" when it holds ms, or what else
  wgConf,     \* the last call of get_peer_wg_config: its arguments and result
  pingHistory \* PING_HISTORY, every ping made so far, and the reported loss

bootVars == <<stateBytes, wgConf, pingHistory>>

vars == <<cfg, network, ms, rules, routes, wg, wgUp, ipForward, firewall, now,
          requests, resp, exitCalls, monitorVars, owed, stalePrimary, confVars,
          raceVars, bootVars>>

CurSys == Sys(ms, rules, routes, wg, wgUp, <<>>)
CurWorld == World(cfg, network, CurSys, ipForward, firewall)

SetSys(sys) ==
  /\ ms' = sys.ms
  /\ rules' = sys.rules
  /\ routes' = sys.routes
  /\ wg' = sys.wg
  /\ exitCalls' = sys.calls

\* A fresh install: Host Mode, the router the only peer, the tunnel up.
FreshWorld ==
  World([mode |-> "host", lan_cidr |-> None],
        [peers |-> (ThisPeer :> [name |-> "router", address |-> ThisAddress,
                                 scripts |-> <<>>]),
         connections |-> <<>>, reservations |-> <<>>],
        Sys(None, <<>>, {}, <<>>, TRUE, <<>>), FALSE, {})

\* The fresh install after Router Mode was enabled for the first LAN.
RouterWorld == switch_mode(FreshWorld, "router", Some(<<LanCidrs[1]>>)).w

\* The table ids the mode state holds for peers of the network.
TablesOf(file, net) ==
  IF file = None THEN <<>>
  ELSE [p \in DOMAIN TheOne(file).peer_table_ids \cap DOMAIN net.peers |->
          TheOne(file).peer_table_ids[p]]

\* No configuration has been generated yet.
NoWgConf == [network |-> <<>>, peer_id |-> "", stripped |-> TRUE, out |-> None]

\* No ping has been made: PING_HISTORY is empty and no health was reported.
NoPingHistory ==
  [history |-> <<>>, sent |-> <<>>, pattern |-> [period |-> 1, fails |-> 0],
   health |-> None]

StartLoaded(w) ==
  /\ cfg = w.cfg
  /\ network = w.net
  /\ ms = w.sys.ms
  /\ rules = w.sys.rules
  /\ routes = w.sys.routes
  /\ wg = w.sys.wg
  /\ wgUp = w.sys.up
  /\ ipForward = w.ip_forward
  /\ firewall = w.firewall
  /\ now = 0
  /\ requests = 0
  /\ resp = [op |-> "none", arg |-> "", status |-> 0]
  /\ exitCalls = <<>>
  /\ cache = <<>>
  /\ failures = <<>>
  /\ pingTail = <<>>
  /\ tracker = None
  /\ pending = <<>>
  /\ failedPings = 0
  /\ upd = [peer |-> "", online |-> TRUE, act |-> "none", at |-> 0]
  /\ onlineSince = [p \in PeerIds |-> <<>>]
  /\ owed = {}
  /\ stalePrimary = {}
  /\ updatedAt = 0
  /\ confYml = [network |-> w.net, updated_at |-> 0]
  /\ configLock = ""
  /\ tunnelLock = ""
  /\ pc = [api |-> "idle", monitor |-> "idle", tunnel |-> "idle"]
  /\ apiExit = None
  /\ monitorJob = None
  /\ tunnelJob = None
  /\ tunnelConfig = w.net
  /\ switches = 0
  /\ firstTable = TablesOf(w.sys.ms, w.net)

StartIn(w) ==
  /\ StartLoaded(w)
  /\ stateBytes = "json"
  /\ wgConf = NoWgConf
  /\ pingHistory = NoPingHistory

\* The agent starts in Router Mode with the router as its only peer.
Init == StartIn(RouterWorld)

\* The agent starts as a fresh install.
InitMode == StartIn(FreshWorld)

\* ------------------------------------------------------------ API requests
\* set_config: conf.yml gets the in-memory config.
set_config(net, at) == [network |-> net, updated_at |-> at]

\* post_mg_config_w_digest: the file's content is taken from the config
\* before updated_at is set to the time of the request.
post_mg_config_w_digest(net, at) == [network |-> net, updated_at |-> at]

\* The handler got as far as post_mg_config_w_digest: the responses after it
\* are 200 and the 500 of a failed sync_conf.
config_saved(status) == status \in {200, 500}

\* A mode switch wrote the config: it changed router.mode or router.lan_cidr,
\* or it succeeded and was not the shortcut of a switch to the current mode
\* without a lan_cidr.
config_written(c, r, target_mode, lan_cidr) ==
  \/ r.w.cfg # c
  \/ r.ok /\ ~(c.mode = "router" /\ target_mode = "router" /\ lan_cidr = None)

\* A request that saves the config stamps the network with the request's time.
SaveConfig(saved, net) ==
  /\ updatedAt' = IF saved THEN now ELSE updatedAt
  /\ confYml' = IF saved THEN post_mg_config_w_digest(net, updatedAt) ELSE confYml

\* One more request is served.
Served ==
  /\ requests < MaxRequests
  /\ requests' = requests + 1

\* POST /api/mode/toggle
ToggleMode(target_mode, lan_cidr, fault) ==
  \E r \in {switch_mode_failing(CurWorld, target_mode, lan_cidr, fault)} :
     /\ Served
     /\ cfg' = r.w.cfg
     /\ network' = r.w.net
     /\ SetSys(r.w.sys)
     /\ ipForward' = r.w.ip_forward
     /\ firewall' = r.w.firewall
     /\ resp' = [op |-> "toggle_mode", arg |-> target_mode,
                 status |-> toggle_mode_status(r)]
     /\ owed' = {}
     /\ confYml' = IF config_written(cfg, r, target_mode, lan_cidr)
                     THEN set_config(r.w.net, updatedAt) ELSE confYml
     /\ UNCHANGED <<bootVars, raceVars, wgUp, now, monitorVars, stalePrimary, updatedAt>>

\* PATCH /api/network/config
PatchNetworkConfig(change_sum) ==
  \E r \in {patch_network_config(network, CurSys, cfg.mode, now, change_sum)} :
     /\ Served
     /\ network' = r.net
     /\ SetSys(r.sys)
     /\ resp' = [op |-> "patch_network_config", arg |-> "", status |-> r.status]
     /\ owed' = {}
     /\ SaveConfig(config_saved(r.status), r.net)
     /\ UNCHANGED <<bootVars, raceVars, cfg, wgUp, ipForward, firewall, now, monitorVars,
                    stalePrimary>>

\* PATCH /api/mode/peer-route-status for the default route.
\* A manual change clears the primary exit node.
clear_primary_exit_node(r) ==
  IF r.ok
    THEN [r EXCEPT !.sys.ms = Some([TheOne(@) EXCEPT !.primary_exit_node = None])]
    ELSE r

update_peer_route_status(sys, peer_id, net) ==
  clear_primary_exit_node(set_exit_node(sys, peer_id, net))

UpdatePeerRouteStatus(peer_id) ==
  \E r \in {update_peer_route_status(CurSys, peer_id, network)} :
     /\ Served
     /\ SetSys(r.sys)
     /\ resp' = [op |-> "update_peer_route_status", arg |-> peer_id,
                 status |-> IF r.ok THEN 200 ELSE 500]
     /\ owed' = IF r.ok THEN {} ELSE owed
     /\ stalePrimary' = IF r.ok /\ get_exit_node(ms) # Some(peer_id)
                          THEN stalePrimary \cup get_primary_exit_node(ms)
                          ELSE stalePrimary
     /\ UNCHANGED <<bootVars, raceVars, confVars, cfg, network, wgUp, ipForward, firewall, now, monitorVars>>

lan_access_response(r) == [status |-> IF r.ok THEN 200 ELSE 500, sys |-> r.sys]

\* The guards of the LAN-access handler, then set_peer_lan_access.
lan_access_request(sys, mode_str, peer_id, has_access, net) ==
  IF mode_str # "router" THEN [status |-> 400, sys |-> sys]
  ELSE IF peer_id \notin DOMAIN net.peers THEN [status |-> 404, sys |-> sys]
  ELSE IF peer_id = ThisPeer THEN [status |-> 400, sys |-> sys]
  ELSE lan_access_response(set_peer_lan_access(sys, peer_id, has_access, net))

\* POST /api/mode/peer-lan-access
SetPeerLanAccess(peer_id, has_access) ==
  \E r \in {lan_access_request(CurSys, cfg.mode, peer_id, has_access, network)} :
     /\ Served
     /\ SetSys(r.sys)
     /\ resp' = [op |-> "set_peer_lan_access", arg |-> "",
                 status |-> r.status]
     /\ UNCHANGED <<bootVars, raceVars, confVars, cfg, network, wgUp, ipForward, firewall, now, monitorVars,
                    owed, stalePrimary>>

set_auto_failover(file, enabled) ==
  IF file = None THEN None
  ELSE Some([TheOne(file) EXCEPT !.auto_failover = enabled])

\* POST /api/mode/auto-failover
SetAutoFailover(enabled) ==
  /\ Served
  /\ ms' = IF cfg.mode = "router" /\ ms # None
             THEN set_auto_failover(ms, enabled) ELSE ms
  /\ resp' = [op |-> "set_auto_failover", arg |-> "",
              status |-> IF cfg.mode # "router" THEN 400
                         ELSE IF ms = None THEN 500 ELSE 200]
  /\ exitCalls' = <<>>
  /\ owed' = IF enabled THEN owed ELSE {}
  /\ UNCHANGED <<bootVars, raceVars, confVars, cfg, network, rules, routes, wg, wgUp, ipForward, firewall, now,
                 monitorVars, stalePrimary>>

\* ------------------------------------------------------------ the requests
NoChange ==
  [changed_peers |-> <<>>, changed_connections |-> <<>>, added_peers |-> <<>>,
   removed_peers |-> <<>>, added_connections |-> <<>>,
   removed_connections |-> <<>>]

IpSets == {{}, {DefaultRoute}}
\* The peers and addresses the configuration requests name.
ConfigPeers == {"A", "B"}
ConfigAddresses == {"10.0.0.2", "10.0.0.3"}

AddPeerReq(p, a) ==
  [NoChange EXCEPT !.added_peers = <<[id |-> p, name |-> "peer", address |-> a]>>]
RemovePeerReq(p) == [NoChange EXCEPT !.removed_peers = <<p>>]
MovePeerReq(p, a) ==
  [NoChange EXCEPT !.changed_peers =
     <<[id |-> p, name |-> None, address |-> Some(a), scripts |-> None]>>]
AddConnectionReq(p, ab, ba) ==
  [NoChange EXCEPT !.added_connections =
     <<[id |-> get_connection_id(ThisPeer, p),
        allowed_ips_a_to_b |-> ab, allowed_ips_b_to_a |-> ba]>>]
RemoveConnectionReq(p) ==
  [NoChange EXCEPT !.removed_connections = <<get_connection_id(ThisPeer, p)>>]
ChangeConnectionReq(p, ab, ba) ==
  [NoChange EXCEPT !.changed_connections =
     <<[id |-> get_connection_id(ThisPeer, p),
        allowed_ips_a_to_b |-> Some(ab), allowed_ips_b_to_a |-> Some(ba)]>>]

\* Change sums of one element each.
SingleChanges ==
  {AddPeerReq(p, a) : p \in ConfigPeers, a \in ConfigAddresses}
  \cup {RemovePeerReq(p) : p \in ConfigPeers}
  \cup {MovePeerReq(p, a) : p \in ConfigPeers, a \in ConfigAddresses}
  \cup {AddConnectionReq(p, ab, ab) : p \in ConfigPeers, ab \in IpSets}
  \cup {RemoveConnectionReq(p) : p \in ConfigPeers}
  \cup {ChangeConnectionReq(p, ab, ab) : p \in ConfigPeers, ab \in IpSets}

\* The lan_cidr of a toggle request, split at its commas: absent, one CIDR,
\* two CIDRs, the empty string.
LanInputs == {None, Some(<<LanCidrs[1]>>), Some(LanCidrs), Some(<<"">>)}

\* Router Mode: configuration changes, exit-node and LAN-access requests.
Next ==
  \/ \E cs \in SingleChanges : PatchNetworkConfig(cs)
  \/ \E p \in ConfigPeers : UpdatePeerRouteStatus(p)
  \/ \E p \in ConfigPeers, b \in BOOLEAN : SetPeerLanAccess(p, b)

Spec == Init /\ [][Next]_vars

\* Mode switches among configuration changes.
NextMode ==
  \/ \E t \in {"host", "router"}, l \in LanInputs, f \in SwitchFaults :
       ToggleMode(t, l, f)
  \/ \E p \in ConfigPeers, a \in ConfigAddresses : PatchNetworkConfig(AddPeerReq(p, a))
  \/ \E p \in ConfigPeers : PatchNetworkConfig(RemovePeerReq(p))

SpecMode == InitMode /\ [][NextMode]_vars

\* ------------------------------------------------- address reservations
\* get_next_available_address: the lowest address of the subnet that no peer
\* has and that is not reserved.
AddressOrder == <<"10.0.0.2", "10.0.0.3", "10.0.0.4">>

get_next_available_address(net) ==
  LET free == {i \in 1..Len(AddressOrder) :
                 /\ \A q \in DOMAIN net.peers : net.peers[q].address # AddressOrder[i]
                 /\ AddressOrder[i] \notin DOMAIN net.reservations}
  IN IF free = {} THEN None
     ELSE Some(AddressOrder[CHOOSE i \in free : \A j \in free : i <= j])

\* The reservation of the next address for a new peer id.
reserve_next_address(net, t, peer_id) ==
  IF get_next_available_address(net) = None THEN [status |-> 409, net |-> net]
  ELSE [status |-> 200,
        net |-> [net EXCEPT !.reservations =
                   (TheOne(get_next_available_address(net)) :>
                      [peer_id |-> peer_id,
                       valid_until |-> t + RESERVATION_TTL_SECS]) @@ @]]

post_network_reserve_address(net, t, peer_id) ==
  reserve_next_address(remove_expired_reservations(net, t), t, peer_id)

\* Peer ids Uuid::new_v4 can return: those that name nothing yet.
FreshPeerIds ==
  {p \in ConfigPeers :
     /\ p \notin DOMAIN network.peers
     /\ \A a \in DOMAIN network.reservations : network.reservations[a].peer_id # p}

\* POST /api/network/reserve/address
ReserveAddress(peer_id) ==
  /\ peer_id \in FreshPeerIds
  /\ \E r \in {post_network_reserve_address(network, now, peer_id)} :
       /\ Served
       /\ network' = r.net
       /\ resp' = [op |-> "reserve_address", arg |-> peer_id, status |-> r.status]
       /\ SaveConfig(r.status = 200, r.net)
  /\ UNCHANGED <<bootVars, raceVars, cfg, ms, rules, routes, wg, wgUp, ipForward, firewall, now,
                 exitCalls, monitorVars, owed, stalePrimary>>

\* Time passes: the reservations made so far expire.
ReservationsExpire ==
  /\ now < RESERVATION_TTL_SECS
  /\ now' = now + RESERVATION_TTL_SECS
  /\ UNCHANGED <<bootVars, raceVars, confVars, cfg, network, ms, rules, routes, wg, wgUp, ipForward, firewall,
                 requests, resp, exitCalls, monitorVars, owed, stalePrimary>>

\* Requests the handler rejects part of the way, among valid ones.
NamedPeerReq(p, n, a) ==
  [NoChange EXCEPT !.added_peers = <<[id |-> p, name |-> n, address |-> a]>>]
RenameMoveReq(p, n, a) ==
  [NoChange EXCEPT !.changed_peers =
     <<[id |-> p, name |-> Some(n), address |-> Some(a), scripts |-> None]>>]
ScriptsReq(p) ==
  [NoChange EXCEPT !.changed_peers =
     <<[id |-> p, name |-> None, address |-> None,
        scripts |-> Some(<<"echo up">>)]>>]
PeerWithConnectionReq(p, a, q) ==
  [NoChange EXCEPT
     !.added_peers = <<[id |-> p, name |-> "peer", address |-> a]>>,
     !.added_connections =
        <<[id |-> get_connection_id(ThisPeer, q),
           allowed_ips_a_to_b |-> {DefaultRoute},
           allowed_ips_b_to_a |-> {DefaultRoute}]>>]

\* A peer is removed and, in the same change sum, a connection to it added.
RemoveAndConnectReq(p) ==
  [NoChange EXCEPT
     !.removed_peers = <<p>>,
     !.added_connections =
        <<[id |-> get_connection_id(ThisPeer, p),
           allowed_ips_a_to_b |-> {}, allowed_ips_b_to_a |-> {}]>>]
\* A connection between any two peer ids, the loopback p-p among them.
ConnectReq(p, q) ==
  [NoChange EXCEPT !.added_connections =
     <<[id |-> get_connection_id(p, q),
        allowed_ips_a_to_b |-> {}, allowed_ips_b_to_a |-> {}]>>]

PatchRequests ==
  {NamedPeerReq(p, n, a) : p \in ConfigPeers, n \in {"peer", ""},
                           a \in ConfigAddresses}
  \cup {RenameMoveReq(p, "renamed", a) : p \in ConfigPeers, a \in ConfigAddresses}
  \cup {ScriptsReq(ThisPeer), RemovePeerReq(ThisPeer), NoChange}
  \cup {PeerWithConnectionReq(p, a, q) : p \in {"A"}, a \in {"10.0.0.2"},
                                         q \in ConfigPeers}

\* Configuration requests, valid and invalid, and address reservations.
NextPatch ==
  \/ \E cs \in PatchRequests : PatchNetworkConfig(cs)
  \/ \E p \in ConfigPeers : ReserveAddress(p)
  \/ ReservationsExpire

SpecPatch == Init /\ [][NextPatch]_vars

\* Changes of this peer's entry: its scripts alone, together with a rename,
\* and its removal after a peer was added in the same change sum.
ScriptsRenameReq(p, n) ==
  [NoChange EXCEPT !.changed_peers =
     <<[id |-> p, name |-> Some(n), address |-> None,
        scripts |-> Some(<<"echo up">>)]>>]
AddAndRemoveReq(p, a, q) ==
  [NoChange EXCEPT
     !.added_peers = <<[id |-> p, name |-> "peer", address |-> a]>>,
     !.removed_peers = <<q>>]

NetworkPeers == ConfigPeers \cup {ThisPeer}

NetworkRequests ==
  {NamedPeerReq(p, n, a) : p \in ConfigPeers, n \in {"peer", ""},
                           a \in ConfigAddresses}
  \cup {RemovePeerReq(p) : p \in NetworkPeers}
  \cup {ConnectReq(p, q) : p, q \in NetworkPeers}
  \cup {RemoveAndConnectReq(p) : p \in ConfigPeers}
  \cup {RemoveConnectionReq(p) : p \in ConfigPeers}
  \cup {ScriptsReq(p) : p \in {ThisPeer, "A"}}
  \cup {ScriptsRenameReq(ThisPeer, n) : n \in {"renamed", ""}}
  \cup {AddAndRemoveReq("B", "10.0.0.3", ThisPeer), NoChange}

\* The agent starts in either mode with the router as its only peer.
InitNetwork == StartIn(FreshWorld) \/ StartIn(RouterWorld)

\* Changes of peers, connections and scripts, and address reservations.
NextNetwork ==
  \/ \E cs \in NetworkRequests : PatchNetworkConfig(cs)
  \/ \E p \in ConfigPeers : ReserveAddress(p)
  \/ ReservationsExpire

SpecNetwork == InitNetwork /\ [][NextNetwork]_vars

\* ---------------------------------------------------------- health monitor
\* The peers whose pings can fail.
Flaky == {"A", "B"}

\* Round-trip time of a successful ping of each peer, in milliseconds.
PingLatency == [p \in PeerIds |-> CASE p = "A" -> 10 [] p = "B" -> 20 [] OTHER -> 30]

\* The debounce test after a failed ping.
below_threshold(failure_count) == failure_count < CONSECUTIVE_FAILURES_THRESHOLD

\* check_peer_health_impl_async: without the dump of the interface the peer
\* is reported offline and nothing is pinged or counted; otherwise a ping
\* that succeeded resets the counter and a failed one increments it.
check_peer_health(up, count, ping) ==
  IF ~up
    THEN [is_online |-> FALSE, latency_ms |-> None, count |-> count,
          pinged |-> FALSE]
  ELSE IF ping # None
    THEN [is_online |-> TRUE, latency_ms |-> ping, count |-> 0, pinged |-> TRUE]
  ELSE [is_online |-> below_threshold(count + 1), latency_ms |-> None,
        count |-> count + 1, pinged |-> TRUE]

\* Cached online peers other than the one that went offline.
Alternatives(c, peer_id) == {q \in DOMAIN c : q # peer_id /\ c[q].is_online}

\* Order of the keys latency_ms.unwrap_or(u64::MAX).
KeyLeq(h1, h2) ==
  \/ h2.latency_ms = None
  \/ h1.latency_ms # None /\ TheOne(h1.latency_ms) <= TheOne(h2.latency_ms)

\* min_by_key over the cache: the minima, one of which the iteration order
\* of the HashMap selects.
best_alternative(c, peer_id) ==
  {q \in Alternatives(c, peer_id) :
     \A r \in Alternatives(c, peer_id) : KeyLeq(c[q], c[r])}

\* Mutant of stable_for: no waiting time.
stable_at_once(t, since) == TRUE

\* now.saturating_sub(online_since) >= FAILBACK_STABILITY_SECS
stable_for(t, since) ==
  (IF t >= since THEN t - since ELSE 0) >= FAILBACK_STABILITY_SECS

set_primary_exit_node(file, peer) ==
  IF file = None THEN file
  ELSE Some([TheOne(file) EXCEPT !.primary_exit_node = peer])

\* What one health update leaves behind and what it did.
HealthResult(sys, c, counts, trk, p, health, went_online, choice, act, sys1) ==
  [sys |-> sys,
   cache |-> (p :> [is_online |-> health.is_online,
                    latency_ms |-> health.latency_ms]) @@ c,
   failures |-> IF health.pinged THEN (p :> health.count) @@ counts ELSE counts,
   tracker |-> trk,
   health |-> health,
   went_online |-> went_online,
   act |-> act,
   moved |-> choice # None /\ get_exit_node(sys1.ms) = choice]

\* peer_last_online_state is saved after a ping.
save_last_online_state(sys, p, health) ==
  IF health.pinged /\ sys.ms # None
    THEN [sys EXCEPT !.ms = Some([TheOne(@) EXCEPT !.peer_last_online_state =
                                    (p :> health.is_online) @@ @])]
    ELSE sys

went_online(c, p, health) == p \in DOMAIN c /\ ~c[p].is_online /\ health.is_online
went_offline(c, p, health) == p \in DOMAIN c /\ c[p].is_online /\ ~health.is_online

\* Offline->Online of the primary exit node starts the stability wait.
track_primary(sys0, c, trk, t, p, health) ==
  IF /\ went_online(c, p, health) /\ get_auto_failover(sys0.ms)
     /\ get_primary_exit_node(sys0.ms) = Some(p)
    THEN Some(<<p, t>>) ELSE trk

\* Online->Offline of the tracked primary ends the wait.
untrack_primary(trk1, c, p, health) ==
  IF went_offline(c, p, health) /\ trk1 # None /\ TheOne(trk1)[1] = p
    THEN None ELSE trk1

\* The failover: the primary is recorded, then the exit node is switched.
failover(sys0, net, p, choice) ==
  IF choice = None THEN sys0
  ELSE set_exit_node([sys0 EXCEPT !.ms = set_primary_exit_node(@, Some(p))],
                     TheOne(choice), net).sys

\* The conditions of the fail-back.
failback_due(sys1, trk2, t, p, health) ==
  /\ get_auto_failover(sys1.ms)
  /\ trk2 # None
  /\ TheOne(trk2)[1] = p
  /\ health.is_online
  /\ stable_for(t, TheOne(trk2)[2])
  /\ get_exit_node(sys1.ms) # None
  /\ get_exit_node(sys1.ms) # Some(p)

\* After set_exit_node(primary): primary and tracker are cleared on success.
after_failback(back, c, counts, trk2, p, health, choice, sys1) ==
  HealthResult(IF back.ok
                 THEN [back.sys EXCEPT !.ms = set_primary_exit_node(@, None)]
                 ELSE back.sys,
               c, counts, IF back.ok THEN None ELSE trk2, p, health,
               went_online(c, p, health), choice, "failback", sys1)

after_failover(sys1, net, c, counts, trk2, t, p, health, choice) ==
  IF failback_due(sys1, trk2, t, p, health)
    THEN after_failback(set_exit_node(sys1, p, net), c, counts, trk2, p, health,
                        choice, sys1)
    ELSE HealthResult(sys1, c, counts, trk2, p, health, went_online(c, p, health),
                      choice, IF choice # None THEN "failover" ELSE "none", sys1)

after_check(sys0, net, c, counts, trk, t, p, health, choice) ==
  after_failover(failover(sys0, net, p, choice), net, c, counts,
                 untrack_primary(track_primary(sys0, c, trk, t, p, health),
                                 c, p, health),
                 t, p, health, choice)

checked(sys, net, c, counts, trk, t, p, health, choice) ==
  after_check(save_last_online_state(sys, p, health), net, c, counts, trk, t, p,
              health, choice)

\* The task spawned for one peer: the health check, then the section under
\* the cache lock.  choice is the alternative min_by_key returns (None when
\* no failover is due).
health_update(sys, net, c, counts, trk, t, p, ping, choice) ==
  checked(sys, net, c, counts, trk, t, p,
          check_peer_health(sys.up, IF p \in DOMAIN counts THEN counts[p] ELSE 0,
                            ping),
          choice)

\* The alternatives the Online->Offline branch can pick for a report.
FailoverChoices(sys, c, counts, p, ping) ==
  LET count == IF p \in DOMAIN counts THEN counts[p] ELSE 0
      health == check_peer_health(sys.up, count, ping)
  IN IF /\ p \in DOMAIN c /\ c[p].is_online /\ ~health.is_online
        /\ get_exit_node(sys.ms) = Some(p)
        /\ get_auto_failover(sys.ms)
        /\ best_alternative(c, p) # {}
       THEN {Some(q) : q \in best_alternative(c, p)}
       ELSE {None}

\* The newest entries of a ping history.
Newest(h) ==
  IF Len(h) <= CONSECUTIVE_FAILURES_THRESHOLD THEN h
  ELSE SubSeq(h, Len(h) - CONSECUTIVE_FAILURES_THRESHOLD + 1, Len(h))

\* One tick of start_health_monitor: a check is spawned for every peer that
\* advertises the default route.
Tick ==
  /\ now < MaxTime
  /\ pending = <<>>
  /\ now' = now + HEALTH_MONITOR_INTERVAL_SECS
  /\ pending' = IF ms # None /\ TheOne(ms).last_mode = "router"
                  THEN get_peers_with_default_route(network) ELSE <<>>
  /\ UNCHANGED <<bootVars, raceVars, confVars, cfg, network, ms, rules, routes, wg, wgUp, ipForward, firewall,
                 requests, resp, exitCalls, cache, failures, pingTail, tracker,
                 failedPings, upd, onlineSince, owed, stalePrimary>>

\* The failure counters, which the code compares only with the threshold,
\* kept no higher than the given value.
CountsUpTo(counts, count_cap) ==
  [p \in DOMAIN counts |->
     IF counts[p] < count_cap THEN counts[p] ELSE count_cap]

\* The oldest spawned check completes with the given ping outcome: the
\* section under the cache lock and what it leaves in the state.
HealthCompletes(ping, count_cap) ==
  /\ pending # <<>>
  /\ wgUp \/ ping = None
  /\ ping # None => ping = Some(PingLatency[Head(pending)])
  /\ \E choice \in FailoverChoices(CurSys, cache, failures, Head(pending), ping) :
     \E p \in {Head(pending)} :
     \E r \in {health_update(CurSys, network, cache, failures, tracker, now,
                              p, ping, choice)} :
          /\ SetSys(r.sys)
          /\ cache' = r.cache
          /\ failures' = CountsUpTo(r.failures, count_cap)
          /\ tracker' = r.tracker
          /\ pending' = Tail(pending)
          /\ pingTail' = IF r.health.pinged
                           THEN (p :> Newest(Append(IF p \in DOMAIN pingTail
                                                      THEN pingTail[p] ELSE <<>>,
                                                    ping # None))) @@ pingTail
                           ELSE pingTail
          /\ upd' = [peer |-> p, online |-> r.health.is_online, act |-> r.act,
                     at |-> now]
          /\ onlineSince' = IF r.went_online
                              THEN [onlineSince EXCEPT ![p] = Append(@, now)]
                              ELSE onlineSince
          /\ owed' = (IF r.moved THEN owed \cup {p} ELSE owed)
                       \ get_exit_node(r.sys.ms)
          /\ stalePrimary' = IF r.act = "failover" THEN stalePrimary \ {p}
                             ELSE stalePrimary
          /\ UNCHANGED <<bootVars, raceVars, confVars, cfg, network, wgUp, ipForward, firewall, now, requests,
                         resp>>

\* A check completes; pings fail only for the flaky peers, a bounded number
\* of times and early in the run.
HealthUpdate(ping) ==
  /\ (wgUp /\ ping = None) =>
       /\ pending # <<>>
       /\ Head(pending) \in Flaky
       /\ failedPings < MaxPingFailures
       /\ now <= MaxEventTime
  /\ failedPings' = IF wgUp /\ ping = None THEN failedPings + 1
                    ELSE failedPings
  /\ HealthCompletes(ping, MaxPingFailures)

\* disable_tunnel: the interface is deleted, and with it its peers and the
\* routes through it.
disable_tunnel(sys) ==
  IF ~sys.up THEN sys ELSE [sys EXCEPT !.up = FALSE, !.wg = <<>>, !.routes = {}]

\* POST /api/wireguard/status {action: down}
PostWireguardStatusDown ==
  /\ Served
  /\ wgUp' = disable_tunnel(CurSys).up
  /\ SetSys(disable_tunnel(CurSys))
  /\ resp' = [op |-> "post_wireguard_status", arg |-> "down", status |-> 200]
  /\ owed' = {}
  /\ UNCHANGED <<bootVars, raceVars, confVars, cfg, network, ipForward, firewall, now, monitorVars, stalePrimary>>

\* Three peers that each advertise the default route, added by one PATCH.
ThreeExits ==
  [NoChange EXCEPT
     !.added_peers =
        <<[id |-> "A", name |-> "peer", address |-> "10.0.0.2"],
          [id |-> "B", name |-> "peer", address |-> "10.0.0.3"],
          [id |-> "C", name |-> "peer", address |-> "10.0.0.4"]>>,
     !.added_connections =
        [i \in 1..3 |->
           [id |-> get_connection_id(ThisPeer, <<"A", "B", "C">>[i]),
            allowed_ips_a_to_b |-> {DefaultRoute},
            allowed_ips_b_to_a |-> {DefaultRoute}]]]

\* Router Mode after that PATCH and after auto-failover was switched on.
WithAutoFailover(w, r) ==
  [w EXCEPT
     !.net = r.net,
     !.sys = [r.sys EXCEPT !.ms = set_auto_failover(@, TRUE), !.calls = <<>>]]

PatchedWorld(w, change_sum) ==
  WithAutoFailover(w, patch_network_config(w.net, w.sys, "router", 0, change_sum))

MonitorWorld == PatchedWorld(RouterWorld, ThreeExits)

InitMonitor == StartIn(MonitorWorld)

\* A request can be served: no health check is pending, and the requests of
\* the monitor run are not used up.
BetweenTicks ==
  /\ pending = <<>>
  /\ requests < MaxMonitorRequests
  /\ now <= MaxRequestTime

\* The monitor and the requests that interfere with it, served between ticks.
NextMonitor ==
  \/ Tick
  \/ \E ping \in {None} \cup {Some(PingLatency[p]) : p \in PeerIds} :
       HealthUpdate(ping)
  \/ \E b \in BOOLEAN : BetweenTicks /\ SetAutoFailover(b)
  \/ \E p \in PeerIds : BetweenTicks /\ UpdatePeerRouteStatus(p)
  \/ \E p \in ConfigPeers : BetweenTicks /\ PatchNetworkConfig(RemovePeerReq(p))
  \/ BetweenTicks /\ PostWireguardStatusDown

SpecMonitor == InitMonitor /\ [][NextMonitor]_vars

\* ------------------------------------------------- concurrent handlers
\* The handlers below run on threads of their own: a PATCH of the network on
\* an API worker, the exit-node switch of the health monitor on the runtime,
\* enable_tunnel on another API worker.  Each action is the code between two
\* points where the thread takes a lock or reads or writes the mode state.
MaxRaceRequests == 4
MaxSwitches == 1

\* validate_and_cleanup_persisted_state: whether the state is kept.
validate_persisted_state(state, current_peer_ids) ==
  \/ DOMAIN state.peer_table_ids = {}
  \/ DOMAIN state.peer_table_ids \cap current_peer_ids # {}

\* validate_and_cleanup_persisted_state: the state without its orphans.
cleanup_persisted_state(state, current_peer_ids) ==
  LET kept == DOMAIN state.peer_table_ids \cap current_peer_ids
      orphaned == DOMAIN state.peer_table_ids \ current_peer_ids
  IN [state EXCEPT
        !.peer_table_ids = [q \in kept |-> @[q]],
        !.peer_last_online_state = [q \in DOMAIN @ \ orphaned |-> @[q]],
        !.peer_lan_access = [q \in DOMAIN @ \ orphaned |-> @[q]],
        !.prefix_active_backup =
           [k \in {j \in DOMAIN @ : @[j].active_peer_id \notin orphaned} |->
              [@[k] EXCEPT !.backup_peer_ids =
                 SelectSeq(@, LAMBDA q : q \notin orphaned)]]]

RECURSIVE restore_peers(_, _, _, _)
RECURSIVE restore_created_peer(_, _, _, _)
\* The loop of restore_peer_routes_after_interface_up over the peers of its
\* config: a peer its copy of the state has no table for gets one from
\* create_peer_routing_table, and the id is inserted into the copy.
restore_peers(sys, state, peers, net) ==
  IF peers = <<>> THEN [sys |-> sys, state |-> state]
  ELSE IF Head(peers) \in DOMAIN state.peer_table_ids
    THEN restore_peers(
           install_added_peer(sys, state.peer_table_ids[Head(peers)],
                              get_peer_advertised_routes(Head(peers), net)),
           state, Tail(peers), net)
  ELSE restore_created_peer(create_peer_routing_table(sys, Head(peers)),
                            state, peers, net)

restore_created_peer(created, state, peers, net) ==
  IF ~created.ok THEN restore_peers(created.sys, state, Tail(peers), net)
  ELSE restore_peers(
         install_added_peer(created.sys,
                            TheOne(get_peer_table_id(created.sys.ms, Head(peers))),
                            get_peer_advertised_routes(Head(peers), net)),
         [state EXCEPT !.peer_table_ids =
            (Head(peers) :> TheOne(get_peer_table_id(created.sys.ms, Head(peers))))
            @@ @],
         Tail(peers), net)

\* The exit node is set again when the file names one that restore's config has.
restore_exit_node(sys, net) ==
  IF get_exit_node(sys.ms) # None /\ get_exit_node(sys.ms) \subseteq DOMAIN net.peers
    THEN set_exit_node(sys, TheOne(get_exit_node(sys.ms)), net).sys
    ELSE sys

\* A peer keeps the first table id noted for it while it is in the network.
NoteTables(file, net) ==
  firstTable' =
    [q \in (DOMAIN firstTable \cap DOMAIN net.peers) \cup DOMAIN TablesOf(file, net) |->
       IF q \in DOMAIN firstTable THEN firstTable[q] ELSE TablesOf(file, net)[q]]

Goto(thread, label) == pc' = [pc EXCEPT ![thread] = label]

\* PATCH /api/network/config up to post_mg_config_w_digest: the write guard
\* of the config is taken and the sections are applied; a request that is
\* rejected returns and drops the guard.
ApiPatch(change_sum) ==
  /\ pc.api = "idle"
  /\ configLock = ""
  /\ requests < MaxRaceRequests
  /\ \E P \in {patch_sections(network, CurSys, cfg.mode, now, change_sum)} :
       /\ Served
       /\ network' = P.net
       /\ SetSys(P.sys)
       /\ NoteTables(P.sys.ms, P.net)
       /\ SaveConfig(P.status = 0 /\ P.changed, P.net)
       /\ IF P.status = 0 /\ P.changed
            THEN /\ configLock' = "api"
                 /\ Goto("api", "sync_conf")
                 /\ resp' = [op |-> "patch_network_config", arg |-> "", status |-> 0]
            ELSE /\ UNCHANGED <<bootVars, configLock, pc>>
                 /\ resp' = [op |-> "patch_network_config", arg |-> "",
                             status |-> IF P.status # 0 THEN P.status ELSE 400]
  /\ UNCHANGED <<bootVars, cfg, wgUp, ipForward, firewall, now, monitorVars, owed,
                 stalePrimary, tunnelLock, apiExit, monitorJob, tunnelJob,
                 tunnelConfig, switches>>

\* sync_conf up to its read of the exit node: the write guard of the tunnel
\* manager is taken, the manager gets the config, wg syncconf runs.
ApiSyncConf ==
  /\ pc.api = "sync_conf"
  /\ tunnelLock = ""
  /\ tunnelConfig' = network
  /\ IF wgUp
       THEN /\ tunnelLock' = "api"
            /\ wg' = wg_syncconf(<<>>, ThisConnSeq(network), network)
            /\ apiExit' = get_exit_node(ms)
            /\ Goto("api", "synced")
            /\ UNCHANGED <<bootVars, configLock, resp>>
       ELSE /\ configLock' = ""
            /\ Goto("api", "idle")
            /\ resp' = [resp EXCEPT !.status = 500]
            /\ UNCHANGED <<bootVars, tunnelLock, wg, apiExit>>
  /\ UNCHANGED <<bootVars, cfg, network, ms, rules, routes, wgUp, ipForward, firewall, now,
                 requests, exitCalls, monitorVars, owed, stalePrimary, confVars,
                 monitorJob, tunnelJob, switches, firstTable>>

\* The end of sync_conf and of the request: wg set gives the exit node that
\* was read its default route, both guards are dropped.
ApiSetExit ==
  /\ pc.api = "synced"
  /\ wg' = restore_exit_allowed_ips(wg, wgUp, apiExit, network)
  /\ apiExit' = None
  /\ tunnelLock' = ""
  /\ configLock' = ""
  /\ Goto("api", "idle")
  /\ resp' = [resp EXCEPT !.status = 200]
  /\ UNCHANGED <<bootVars, cfg, network, ms, rules, routes, wgUp, ipForward, firewall, now,
                 requests, exitCalls, monitorVars, owed, stalePrimary, confVars,
                 monitorJob, tunnelJob, tunnelConfig, switches, firstTable>>

\* The monitor fails over to p: it reads the config for the network it
\* passes to set_exit_node.
MonitorGetConfig(p) ==
  /\ pc.monitor = "idle"
  /\ switches < MaxSwitches
  /\ configLock = ""
  /\ cfg.mode = "router"
  /\ p \in Backups(network)
  /\ get_exit_node(ms) # None
  /\ get_exit_node(ms) # Some(p)
  /\ switches' = switches + 1
  /\ monitorJob' = Some([peer |-> p, network |-> network, state |-> None])
  /\ Goto("monitor", "configured")
  /\ UNCHANGED <<bootVars, cfg, network, ms, rules, routes, wg, wgUp, ipForward, firewall,
                 now, requests, resp, exitCalls, monitorVars, owed, stalePrimary,
                 confVars, configLock, tunnelLock, apiExit, tunnelJob,
                 tunnelConfig, firstTable>>

\* set_exit_node_impl loads the mode state.
MonitorLoad ==
  /\ pc.monitor = "configured"
  /\ monitorJob' = Some([TheOne(monitorJob) EXCEPT !.state = ms])
  /\ Goto("monitor", "loaded")
  /\ UNCHANGED <<bootVars, cfg, network, ms, rules, routes, wg, wgUp, ipForward, firewall,
                 now, requests, resp, exitCalls, monitorVars, owed, stalePrimary,
                 confVars, configLock, tunnelLock, apiExit, tunnelJob,
                 tunnelConfig, switches, firstTable>>

\* The rest of set_exit_node_impl, on the state it loaded: nothing is saved
\* when there was no state or the peer has no table in it.
MonitorSwitch ==
  /\ pc.monitor = "loaded"
  /\ \E job \in monitorJob :
     \E r \in {set_exit_node_impl(Sys(job.state, rules, routes, wg, wgUp, <<>>),
                                  job.peer, job.network)} :
       /\ ms' = IF job.state # None
                   /\ job.peer \in DOMAIN TheOne(job.state).peer_table_ids
                  THEN r.sys.ms ELSE ms
       /\ rules' = r.sys.rules
       /\ routes' = r.sys.routes
       /\ wg' = r.sys.wg
       /\ NoteTables(ms', network)
  /\ monitorJob' = None
  /\ Goto("monitor", "idle")
  /\ UNCHANGED <<bootVars, cfg, network, wgUp, ipForward, firewall, now, requests, resp,
                 exitCalls, monitorVars, owed, stalePrimary, confVars, configLock,
                 tunnelLock, apiExit, tunnelJob, tunnelConfig, switches>>

\* The write-back of check_peer_health_impl_async for a peer found offline:
\* the state is loaded afresh (the maps taken at the start of the check are
\* those of this load, the ping taking no time).
HealthReload(p) ==
  /\ pc.monitor = "idle"
  /\ cfg.mode = "router"
  /\ p \in Backups(network)
  /\ ms # None
  /\ p \notin DOMAIN TheOne(ms).peer_last_online_state
  /\ monitorJob' = Some([peer |-> p, network |-> network, state |-> ms])
  /\ Goto("monitor", "reloaded")
  /\ UNCHANGED <<bootVars, cfg, network, ms, rules, routes, wg, wgUp, ipForward,
                 firewall, now, requests, resp, exitCalls, monitorVars, owed,
                 stalePrimary, confVars, configLock, tunnelLock, apiExit,
                 tunnelJob, tunnelConfig, switches, firstTable>>

\* The health fields are set in the state that was loaded and it is saved.
HealthWriteBack ==
  /\ pc.monitor = "reloaded"
  /\ \E job \in monitorJob :
       /\ ms' = save_last_online_state(
                  Sys(job.state, rules, routes, wg, wgUp, <<>>), job.peer,
                  [pinged |-> TRUE, is_online |-> FALSE]).ms
       /\ NoteTables(ms', network)
  /\ monitorJob' = None
  /\ Goto("monitor", "idle")
  /\ UNCHANGED <<bootVars, cfg, network, rules, routes, wg, wgUp, ipForward,
                 firewall, now, requests, resp, exitCalls, monitorVars, owed,
                 stalePrimary, confVars, configLock, tunnelLock, apiExit,
                 tunnelJob, tunnelConfig, switches>>

\* POST /api/wireguard/status {action: down}: disable_tunnel takes the guard
\* of the tunnel manager for the stop.
TunnelDown ==
  /\ pc.tunnel = "idle"
  /\ tunnelLock = ""
  /\ requests < MaxRaceRequests
  /\ PostWireguardStatusDown

\* POST /api/wireguard/status {action: up} on an interface that is down:
\* enable_tunnel takes the guard of the tunnel manager and keeps it to its
\* end; start_tunnel sets the interface up from the manager's config.
EnableTunnel ==
  /\ pc.tunnel = "idle"
  /\ tunnelLock = ""
  /\ ~wgUp
  /\ requests < MaxRaceRequests
  /\ Served
  /\ tunnelLock' = "tunnel"
  /\ wgUp' = TRUE
  /\ wg' = wg_syncconf(<<>>, ThisConnSeq(tunnelConfig), tunnelConfig)
  /\ Goto("tunnel", "started")
  /\ resp' = [op |-> "post_wireguard_status", arg |-> "up", status |-> 0]
  /\ UNCHANGED <<bootVars, cfg, network, ms, rules, routes, ipForward, firewall, now,
                 exitCalls, monitorVars, owed, stalePrimary, confVars, configLock,
                 apiExit, monitorJob, tunnelJob, tunnelConfig, switches,
                 firstTable>>

\* enable_tunnel reads the config while it holds the tunnel manager.
TunnelGetConfig ==
  /\ pc.tunnel = "started"
  /\ configLock = ""
  /\ tunnelJob' = Some([config |-> network, network |-> network, state |-> None])
  /\ Goto("tunnel", "up")
  /\ UNCHANGED <<bootVars, cfg, network, ms, rules, routes, wg, wgUp, ipForward, firewall,
                 now, requests, resp, exitCalls, monitorVars, owed, stalePrimary,
                 confVars, configLock, tunnelLock, apiExit, monitorJob,
                 tunnelConfig, switches, firstTable>>

\* The end of enable_tunnel.
TunnelDone ==
  /\ tunnelJob' = None
  /\ tunnelLock' = ""
  /\ Goto("tunnel", "idle")
  /\ resp' = [op |-> "post_wireguard_status", arg |-> "up", status |-> 200]

\* After the pause restore_peer_routes_after_interface_up loads the mode
\* state; without a Router state enable_tunnel is done.
RestoreLoad ==
  /\ pc.tunnel = "up"
  /\ IF ms = None
       THEN TunnelDone
       ELSE /\ tunnelJob' = Some([TheOne(tunnelJob) EXCEPT !.state = ms])
            /\ Goto("tunnel", "loaded")
            /\ UNCHANGED <<bootVars, tunnelLock, resp>>
  /\ UNCHANGED <<bootVars, cfg, network, ms, rules, routes, wg, wgUp, ipForward, firewall,
                 now, requests, exitCalls, monitorVars, owed, stalePrimary,
                 confVars, configLock, apiExit, monitorJob, tunnelConfig, switches,
                 firstTable>>

\* restore reads the config and validates its copy of the state against it;
\* a state without any peer of the config is cleared.
RestoreGetConfig ==
  /\ pc.tunnel = "loaded"
  /\ configLock = ""
  /\ \E job \in tunnelJob :
       IF validate_persisted_state(TheOne(job.state), DOMAIN network.peers \ {ThisPeer})
         THEN /\ tunnelJob' =
                   Some([job EXCEPT
                           !.network = network,
                           !.state = Some(cleanup_persisted_state(
                                       TheOne(@), DOMAIN network.peers \ {ThisPeer}))])
              /\ Goto("tunnel", "restoring")
              /\ UNCHANGED <<bootVars, ms, tunnelLock, resp, firstTable>>
         ELSE /\ ms' = None
              /\ NoteTables(None, network)
              /\ TunnelDone
  /\ UNCHANGED <<bootVars, cfg, network, rules, routes, wg, wgUp, ipForward, firewall, now,
                 requests, exitCalls, monitorVars, owed, stalePrimary, confVars,
                 configLock, apiExit, monitorJob, tunnelConfig, switches>>

\* The loop of restore over the peers of its config.
RestorePeers ==
  /\ pc.tunnel = "restoring"
  /\ \E job \in tunnelJob :
     \E r \in {restore_peers(CurSys, TheOne(job.state),
                             OtherPeerSeq(job.network), job.network)} :
       /\ SetSys(r.sys)
       /\ tunnelJob' = Some([job EXCEPT !.state = Some(r.state)])
       /\ NoteTables(r.sys.ms, network)
  /\ Goto("tunnel", "restored")
  /\ UNCHANGED <<bootVars, cfg, network, wgUp, ipForward, firewall, now, requests, resp,
                 monitorVars, owed, stalePrimary, confVars, configLock, tunnelLock,
                 apiExit, monitorJob, tunnelConfig, switches>>

\* The end of restore and of enable_tunnel: the exit node of the file is set
\* again, restore saves its copy of the state, and enable_tunnel gives the
\* exit node of the file its default route with the config it read first.
RestoreSave ==
  /\ pc.tunnel = "restored"
  /\ \E job \in tunnelJob :
     \E sys1 \in {restore_exit_node(CurSys, job.network)} :
       /\ ms' = job.state
       /\ rules' = sys1.rules
       /\ routes' = sys1.routes
       /\ wg' = restore_exit_allowed_ips(sys1.wg, wgUp, get_exit_node(job.state),
                                         job.config)
       /\ exitCalls' = sys1.calls
       /\ NoteTables(job.state, network)
  /\ TunnelDone
  /\ UNCHANGED <<bootVars, cfg, network, wgUp, ipForward, firewall, now, requests,
                 monitorVars, owed, stalePrimary, confVars, configLock, apiExit,
                 monitorJob, tunnelConfig, switches>>

\* Two peers that each advertise the default route, added by one PATCH.
TwoExits ==
  [NoChange EXCEPT
     !.added_peers =
        <<[id |-> "A", name |-> "peer", address |-> "10.0.0.2"],
          [id |-> "B", name |-> "peer", address |-> "10.0.0.3"]>>,
     !.added_connections =
        [i \in 1..2 |->
           [id |-> get_connection_id(ThisPeer, <<"A", "B">>[i]),
            allowed_ips_a_to_b |-> {DefaultRoute},
            allowed_ips_b_to_a |-> {DefaultRoute}]]]

RaceWorld == PatchedWorld(RouterWorld, TwoExits)

InitRace == StartIn(RaceWorld)

\* The PATCH requests of the concurrent runs: a third peer, and removals.
RaceRequests ==
  {AddPeerReq("C", "10.0.0.4")} \cup {RemovePeerReq(p) : p \in PeerIds}

NextRace ==
  \/ \E cs \in RaceRequests : ApiPatch(cs)
  \/ ApiSyncConf
  \/ ApiSetExit
  \/ \E p \in PeerIds : MonitorGetConfig(p)
  \/ MonitorLoad
  \/ MonitorSwitch
  \/ \E p \in PeerIds : HealthReload(p)
  \/ HealthWriteBack
  \/ TunnelDown
  \/ EnableTunnel
  \/ TunnelGetConfig
  \/ RestoreLoad
  \/ RestoreGetConfig
  \/ RestorePeers
  \/ RestoreSave

SpecRace == InitRace /\ [][NextRace]_vars

\* ------------------------------------------- the monitor left to itself
\* The peer that, once a ping of it has failed, never answers again.
Mortal == {"A"}

\* The interval loop of start_health_monitor never ends; the clock of the
\* model stops at MaxTime, the ticks go on.
TickLive ==
  /\ pending = <<>>
  /\ now' = IF now < MaxTime THEN now + HEALTH_MONITOR_INTERVAL_SECS ELSE now
  /\ pending' = IF ms # None /\ TheOne(ms).last_mode = "router"
                  THEN get_peers_with_default_route(network) ELSE <<>>
  /\ UNCHANGED <<bootVars, raceVars, confVars, cfg, network, ms, rules, routes, wg, wgUp, ipForward, firewall,
                 requests, resp, exitCalls, cache, failures, pingTail, tracker,
                 failedPings, upd, onlineSince, owed, stalePrimary>>

\* The pings the network lets through: the mortal peer fails for good once
\* it has failed, every other peer fails a bounded number of times and early.
PingAllowed(p, ping) ==
  IF p \in Mortal
    THEN /\ (p \in DOMAIN failures /\ failures[p] > 0) => ping = None
         /\ ping = None =>
              \/ p \in DOMAIN failures /\ failures[p] > 0
              \/ now <= MaxEventTime
    ELSE ping = None => failedPings < MaxPingFailures /\ now <= MaxEventTime

\* A spawned check completes.
HealthUpdateLive(ping) ==
  /\ pending # <<>>
  /\ PingAllowed(Head(pending), ping)
  /\ failedPings' = IF ping = None /\ Head(pending) \notin Mortal
                      THEN failedPings + 1 ELSE failedPings
  /\ HealthCompletes(ping, CONSECUTIVE_FAILURES_THRESHOLD)

LivePings == {None} \cup {Some(PingLatency[p]) : p \in PeerIds}

InitLive == StartIn(RaceWorld)

NextLive ==
  \/ TickLive
  \/ \E ping \in LivePings : HealthUpdateLive(ping)

\* The step of the oldest spawned check, whatever its ping: the only steps
\* of NextLive that shorten pending are those of HealthUpdateLive, and one
\* of them is enabled whenever a check is pending.
CheckCompletes == pending # <<>> /\ pending' = Tail(pending)

\* Every tick comes, and every spawned check completes.
SpecLive ==
  /\ InitLive
  /\ [][NextLive]_vars
  /\ WF_vars(TickLive)
  /\ WF_pending(CheckCompletes)

\* ------------------------------------------------------------- properties
\* C1: every set_exit_node(P) that returns success leaves P persisted as the
\* active peer of 0.0.0.0/0, P's WireGuard allowed-ips containing 0.0.0.0/0,
\* and the previous exit node (when it is not P) without 0.0.0.0/0.
C1_SetExitNodePostState ==
  \A i \in 1..Len(exitCalls) :
    exitCalls[i].ok =>
      /\ exitCalls[i].active = Some(exitCalls[i].peer)
      /\ exitCalls[i].peer \in exitCalls[i].with_default
      /\ \A q \in exitCalls[i].prev \ {exitCalls[i].peer} :
           q \notin exitCalls[i].with_default

\* A successful set_exit_node that took the exit role over from another peer.
C1_Witness ==
  \E i \in 1..Len(exitCalls) :
    /\ exitCalls[i].ok
    /\ exitCalls[i].prev # None
    /\ exitCalls[i].prev # Some(exitCalls[i].peer)

\* Lookup targets of the default-route rules of the exit band.
ExitBandTables ==
  {rules[i].lookup : i \in {j \in 1..Len(rules) :
                              /\ rules[j].priority >= EXIT_PRIORITY_BASE
                              /\ rules[j].to = DefaultRoute}}

\* Table of the peer recorded as active for 0.0.0.0/0, as a lookup target.
ActiveExitTable ==
  {ToString(t) : t \in UNION {get_peer_table_id(ms, p) : p \in get_exit_node(ms)}}

\* C2: in Router Mode the exit-band rules `to 0.0.0.0/0` reference the table
\* of at most one peer, the one recorded as active in prefix_active_backup.
C2_ExitRulesFollowActive ==
  cfg.mode = "router" =>
    /\ Cardinality(ExitBandTables) <= 1
    /\ ExitBandTables \subseteq ActiveExitTable

\* The time of the most recent Offline->Online report in a peer's record.
LastOnline(times) == times[Len(times)]

\* A health update: the oldest pending check completes.
IsHealthUpdate == pending # <<>> /\ pending' = Tail(pending)

\* Cached online peers, other than a, than which no other has a lower
\* measured latency.
LowestLatency(c, a) ==
  {q \in DOMAIN c \ {a} :
     /\ c[q].is_online
     /\ \A r \in DOMAIN c \ {a, q} :
          (c[r].is_online /\ c[r].latency_ms # None) =>
            /\ c[q].latency_ms # None
            /\ TheOne(c[q].latency_ms) <= TheOne(c[r].latency_ms)}

\* C3: with auto-failover enabled, a health update that sees the active exit
\* node A go from online to offline while another peer is cached online
\* makes the cached online peer of lowest latency the active exit node and
\* records A as primary_exit_node.
C3_FailoverPicksLowestLatency ==
  [][(/\ IsHealthUpdate
      /\ get_auto_failover(ms)
      /\ get_exit_node(ms) = Some(Head(pending))
      /\ Head(pending) \in DOMAIN cache
      /\ cache[Head(pending)].is_online
      /\ ~cache'[Head(pending)].is_online
      /\ \E q \in DOMAIN cache \ {Head(pending)} : cache[q].is_online)
     => /\ get_exit_node(ms') # None
        /\ get_exit_node(ms') \subseteq LowestLatency(cache, Head(pending))
        /\ get_primary_exit_node(ms') = Some(Head(pending))]_vars

\* C4: a peer the exit role was failed over from, that has come back online
\* and been online for FAILBACK_STABILITY_SECS with auto-failover enabled, is
\* the exit node again, and primary_exit_node is cleared, once a health
\* update for it has run after that time.
C4_FailbackAfterStability ==
  \A a \in owed :
    (/\ upd.peer = a
     /\ upd.online
     /\ get_auto_failover(ms)
     /\ onlineSince[a] # <<>>
     /\ upd.at - LastOnline(onlineSince[a]) >= FAILBACK_STABILITY_SECS)
    => /\ get_exit_node(ms) = Some(a)
       /\ get_primary_exit_node(ms) = None

\* C5: the monitor does not fail back to a primary that was recorded before
\* a manual exit-node change.
C5_NoFailbackToStalePrimary ==
  ~(upd.act = "failback" /\ upd.peer \in stalePrimary)

\* C6: a fail-back happens only with auto-failover enabled, the peer reported
\* online, the exit node being another peer, and FAILBACK_STABILITY_SECS
\* elapsed since the peer's most recent Offline->Online report.
C6_FailbackGuards ==
  [][(IsHealthUpdate /\ upd'.act = "failback")
     => /\ get_auto_failover(ms)
        /\ upd'.online
        /\ get_exit_node(ms) # Some(Head(pending))
        /\ onlineSince'[Head(pending)] # <<>>
        /\ now - LastOnline(onlineSince'[Head(pending)]) >= FAILBACK_STABILITY_SECS]_vars

\* A fail-back has been made to a peer that went offline and came back a
\* second time while it was waited for.
C6_Witness ==
  /\ upd.act = "failback"
  /\ get_exit_node(ms) = Some(upd.peer)
  /\ Len(onlineSince[upd.peer]) >= 2

\* The pings of a peer's history tail all failed, and there are three.
LastThreeFailed(p) ==
  /\ p \in DOMAIN pingTail
  /\ Len(pingTail[p]) >= CONSECUTIVE_FAILURES_THRESHOLD
  /\ \A i \in 1..Len(pingTail[p]) : ~pingTail[p][i]

\* C7: a health update reports a peer offline iff the peer's three most
\* recent pings all failed.
C7_OfflineIffThreeFailedPings ==
  upd.peer # "" => (~upd.online <=> LastThreeFailed(upd.peer))

\* A PATCH /api/network/config has been served in this step.
IsPatch == requests' = requests + 1 /\ resp'.op = "patch_network_config"

\* C9: a PATCH /api/network/config that is rejected with a 4xx leaves the
\* in-memory network (peers, connections, reservations) as it was.
C9_RejectedPatchLeavesNetwork ==
  [][(IsPatch /\ resp'.status \in 400..499) => network' = network]_vars

\* A POST /api/mode/toggle has been served in this step.
IsToggle == requests' = requests + 1 /\ resp'.op = "toggle_mode"

\* C10: a switch to the other mode that is requested while the network has
\* more than one peer is answered 403 and changes neither ip_forward, the
\* firewall rules, the mode state nor the config.
C10_SwitchRefusedWithPeers ==
  [][(/\ IsToggle
      /\ resp'.arg # cfg.mode
      /\ Cardinality(DOMAIN network.peers) > 1)
     => /\ resp'.status = 403
        /\ UNCHANGED <<bootVars, cfg, network, ms, ipForward, firewall>>]_vars

\* A switch from Router to Host has been refused for the peers that exist.
C10_Witness ==
  /\ resp.op = "toggle_mode"
  /\ resp.status = 403
  /\ resp.arg = "host"
  /\ cfg.mode = "router"
  /\ Cardinality(DOMAIN network.peers) > 1

\* The rules `from <q's address>/32 iif <wg> to <lan cidr> lookup main`.
PeerLanRules(q) ==
  {i \in 1..Len(rules) :
     /\ rules[i].from = Host(network.peers[q].address)
     /\ rules[i].iif = WgInterface
     /\ rules[i].lookup = "main"
     /\ ms # None
     /\ rules[i].to \in Range(LanCidrsOf(TheOne(ms)))}

\* C8: no peer whose peer_lan_access is false has a rule
\* `from <address>/32 iif <wg> to <lan cidr> lookup main`.
C8_NoLanRuleWithoutAccess ==
  \A q \in (DOMAIN network.peers) \ {ThisPeer} :
    (ms # None /\ ~has_lan_access(TheOne(ms), q)) => PeerLanRules(q) = {}

\* C11: a Host -> Router switch that fails leaves ip_forward at 0, the
\* firewall rules as they were before the request, no ModeState persisted
\* and the config in Host Mode.
C11_FailedSwitchRolledBack ==
  [][(/\ IsToggle
      /\ cfg.mode = "host"
      /\ resp'.arg = "router"
      /\ resp'.status # 200)
     => /\ ipForward' = FALSE
        /\ firewall' = firewall
        /\ ms' = None
        /\ cfg'.mode = "host"]_vars

\* C17: whenever the config is in Router Mode, router.lan_cidr is present,
\* has at least one entry, and every comma-separated entry is a well-formed
\* IPv4 CIDR.
C17_RouterLanCidrValid ==
  cfg.mode = "router" =>
    /\ cfg.lan_cidr # None
    /\ \A segments \in cfg.lan_cidr :
         /\ Len(segments) > 0
         /\ \A k \in 1..Len(segments) : segments[k] \in WellFormedCidrs

\* C18: on a system that started in Host Mode with ip_forward 0 and without
\* iptables rules, a successful switch from Router Mode back to Host Mode
\* leaves ip_forward 0 and none of the rules of the firewall manager.
C18_RoundTripRestoresHost ==
  [][(/\ IsToggle
      /\ cfg.mode = "router"
      /\ resp'.arg = "host"
      /\ resp'.status = 200)
     => /\ ipForward' = FALSE
        /\ firewall' = {}]_vars

\* C19: for every LAN CIDR list, enable_router_mode_firewall followed by
\* disable_router_mode_firewall (which reads the list from the mode state)
\* leaves the iptables rules as they were before the enable.
C19_EnableThenDisableIsIdentity ==
  \A l \in LanInputs \ {None} : \A segments \in l :
    disable_router_mode_firewall(enable_router_mode_firewall(firewall, segments),
                                 Some(FreshModeState(segments))) = firewall

\* The request of this step removed the active exit node from the network.
RemovedActiveExit(p) ==
  /\ IsPatch
  /\ get_exit_node(ms) = Some(p)
  /\ p \in DOMAIN network.peers
  /\ p \notin DOMAIN network'.peers

\* C14: after a PATCH that removes the active exit node, the removed peer has
\* no table mapping in the mode state, and the recorded exit node is one of
\* the remaining peers that advertise the default route when there is one,
\* and nobody otherwise.
C14_RemovedExitNodeReplaced ==
  [][\A p \in PeerIds : RemovedActiveExit(p) =>
       /\ get_peer_table_id(ms', p) = None
       /\ IF Backups(network') # {}
            THEN get_exit_node(ms') # None /\ get_exit_node(ms') \subseteq Backups(network')
            ELSE get_exit_node(ms') = None]_vars

\* A POST /api/network/reserve/address has been served in this step.
IsReserve == requests' = requests + 1 /\ resp'.op = "reserve_address"

\* C20: after every PATCH /api/network/config and every reserve-address
\* request, accepted or rejected, conf.yml holds the in-memory network,
\* updated_at included.
C20_ConfYmlEqualsMemory ==
  [][(IsPatch \/ IsReserve)
     => confYml' = [network |-> network', updated_at |-> updatedAt']]_vars

\* The table ids of the persisted mode state.
PeerTableIds == IF ms = None THEN <<>> ELSE TheOne(ms).peer_table_ids

\* C12: the values of ModeState.peer_table_ids are pairwise distinct and lie
\* in [1000, 9999], whatever allocations, removals and restores interleave.
C12_TableIdsDistinctInRange ==
  /\ \A p \in DOMAIN PeerTableIds : PeerTableIds[p] \in TABLE_ID_MIN..TABLE_ID_MAX
  /\ \A p, q \in DOMAIN PeerTableIds :
       PeerTableIds[p] = PeerTableIds[q] => p = q

\* C13: while a peer stays in the network, the table id the mode state holds
\* for it is the one it was given first.
C13_TableIdStable ==
  \A p \in DOMAIN firstTable \cap DOMAIN TablesOf(ms, network) :
    TablesOf(ms, network)[p] = firstTable[p]

\* The peers whose WireGuard allowed-ips hold the default route.
DefaultRouteHolders(w) == {q \in DOMAIN w : DefaultRoute \in w[q]}

\* sync_conf returns in this step.
SyncConfCompletes == pc.api = "synced" /\ pc'.api = "idle"

\* C15: when sync_conf completes while an exit node is selected, the default
\* route is in the allowed-ips of the selected exit node and of no other peer.
C15_SyncConfKeepsExitNode ==
  [][(SyncConfCompletes /\ get_exit_node(ms') # None)
     => DefaultRouteHolders(wg') = get_exit_node(ms')]_vars

\* The PATCH handler holds the config and waits in sync_conf for the tunnel
\* manager.
ApiWaitsForTunnelManager == pc.api = "sync_conf" /\ tunnelLock = "tunnel"

\* enable_tunnel holds the tunnel manager and waits in get_config for the
\* config.
TunnelWaitsForConfig == pc.tunnel \in {"started", "loaded"} /\ configLock = "api"

\* C16: no interleaving of the handlers reaches a state in which two of them
\* wait for the lock the other one holds.
C16_NoCircularWait == ~(ApiWaitsForTunnelManager /\ TunnelWaitsForConfig)

\* ------------------------------------------------ WireGuard config text
\* An Ipv4Net as it is stored, and its Display: the address as given, a
\* slash, the prefix length.
Ipv4Net(addr, prefix_len) == [addr |-> addr, prefix_len |-> prefix_len]
to_string(net) == net.addr \o "/" \o ToString(net.prefix_len)

\* Every entry is kept.
unfiltered_allowed_ips(allowed_ips) == allowed_ips

\* The entries whose text is neither 0.0.0.0/0 nor default.
filtered_allowed_ips(allowed_ips) ==
  SelectSeq(allowed_ips,
            LAMBDA ip : to_string(ip) # "0.0.0.0/0" /\ to_string(ip) # "default")

\* The other end of a connection of the peer.
OtherPeer(c, peer_id) == IF c.a = peer_id THEN c.b ELSE c.a

\* The allowed-ips of the peer's side of a connection.
SideAllowedIps(net, c, peer_id) ==
  IF c.a = peer_id THEN net.connections[c].allowed_ips_a_to_b
  ELSE net.connections[c].allowed_ips_b_to_a

\* The enabled connections of the peer, in the order of the other end.
EnabledConnSeq(net, peer_id) ==
  LET cs == {c \in DOMAIN net.connections :
               peer_id \in {c.a, c.b} /\ net.connections[c].enabled}
      others == SortedSeq({OtherPeer(c, peer_id) : c \in cs})
  IN [i \in 1..Len(others) |-> get_connection_id(peer_id, others[i])]

\* The AllowedIPs line of a [Peer] section: the filtered entries as text, or
\* the other peer's address/32 when none is left.
AllowedIPsLine(kept, other_address) ==
  IF kept = <<>> THEN <<to_string(Ipv4Net(other_address, 32))>>
  ELSE [k \in 1..Len(kept) |-> to_string(kept[k])]

PeerSection(net, c, peer_id) ==
  [peer |-> OtherPeer(c, peer_id),
   allowed_ips |->
     AllowedIPsLine(filtered_allowed_ips(SideAllowedIps(net, c, peer_id)),
                    net.peers[OtherPeer(c, peer_id)].address)]

\* get_peer_wg_config: the [Interface] section (its Address line is left
\* out of the stripped config) and the [Peer] sections.
get_peer_wg_config(net, peer_id, stripped) ==
  IF peer_id \notin DOMAIN net.peers
       \/ \E i \in 1..Len(EnabledConnSeq(net, peer_id)) :
            OtherPeer(EnabledConnSeq(net, peer_id)[i], peer_id)
              \notin DOMAIN net.peers
    THEN [ok |-> FALSE, err |-> "PeerNotFound", address |-> None,
          sections |-> <<>>]
    ELSE [ok |-> TRUE, err |-> "",
          address |-> IF stripped THEN None
                      ELSE Some(net.peers[peer_id].address \o "/24"),
          sections |-> [i \in 1..Len(EnabledConnSeq(net, peer_id)) |->
                          PeerSection(net,
                                      EnabledConnSeq(net, peer_id)[i],
                                      peer_id)]]

\* The networks the config is generated for: the router and peer A, peer B
\* or not, the connection of the router and A with every list of up to
\* MaxAllowedIps entries on either side, enabled or not, and a connection of
\* A and B or not (B may be missing from the peers).
MaxAllowedIps == 2
WgNets == {Ipv4Net("0.0.0.0", 0), Ipv4Net("10.9.0.0", 0),
           Ipv4Net("192.168.1.0", 24)}
AllowedIpLists == UNION {[1..n -> WgNets] : n \in 0..MaxAllowedIps}

WgPeers(with_b) ==
  (ThisPeer :> [name |-> "router", address |-> ThisAddress])
  @@ ("A" :> [name |-> "peer", address |-> "10.0.0.2"])
  @@ (IF with_b THEN "B" :> [name |-> "peer", address |-> "10.0.0.3"] ELSE <<>>)

WgConnections(enabled, a_to_b, b_to_a, with_ab) ==
  (get_connection_id(ThisPeer, "A") :>
     [enabled |-> enabled, allowed_ips_a_to_b |-> a_to_b,
      allowed_ips_b_to_a |-> b_to_a])
  @@ (IF with_ab
        THEN get_connection_id("A", "B") :>
               [enabled |-> TRUE, allowed_ips_a_to_b |-> <<>>,
                allowed_ips_b_to_a |-> <<Ipv4Net("0.0.0.0", 0)>>]
        ELSE <<>>)

WgNetworks ==
  {[peers |-> WgPeers(with_b),
    connections |-> WgConnections(enabled, a_to_b, b_to_a, with_ab)] :
     with_b \in BOOLEAN, enabled \in BOOLEAN, with_ab \in BOOLEAN,
     a_to_b \in AllowedIpLists, b_to_a \in AllowedIpLists}

WgConfigPeers == {ThisPeer, "A", "B"}

\* The config of a peer is generated.
GetPeerWgConfig ==
  /\ wgConf.out = None
  /\ wgConf.peer_id # ""
  /\ wgConf' = [wgConf EXCEPT !.out =
                  Some(get_peer_wg_config(wgConf.network, wgConf.peer_id,
                                          wgConf.stripped))]
  /\ UNCHANGED <<raceVars, confVars, monitorVars, stateBytes, pingHistory,
                 cfg, network, ms, rules, routes, wg, wgUp, ipForward, firewall, now, requests,
                 resp, exitCalls, owed, stalePrimary>>

InitWgConfig ==
  /\ StartLoaded(FreshWorld)
  /\ stateBytes = "json"
  /\ pingHistory = NoPingHistory
  /\ wgConf \in {[network |-> n, peer_id |-> p, stripped |-> s, out |-> None] :
                    n \in WgNetworks, p \in WgConfigPeers, s \in BOOLEAN}

NextWgConfig == GetPeerWgConfig

SpecWgConfig == InitWgConfig /\ [][NextWgConfig]_vars

\* ------------------------------------------------------ agent startup
\* What router_mode_state.json can hold other than a serialised ModeState:
\* nothing (zero bytes or white space), text that is not the JSON of a
\* ModeState, bytes that are not UTF-8.
StateFileDamage == {"empty", "garbage", "not_utf8"}

\* load_mode_state: read_to_string fails on bytes that are not UTF-8; an
\* empty or unparsable text is deleted and there is no state.
load_mode_state(file, bytes) ==
  IF bytes = "json"
    THEN [ok |-> TRUE, state |-> file, file |-> file, bytes |-> bytes]
  ELSE IF bytes = "not_utf8"
    THEN [ok |-> FALSE, state |-> None, file |-> file, bytes |-> bytes]
  ELSE [ok |-> TRUE, state |-> None, file |-> None, bytes |-> "json"]

\* Router arm of the restoration: forwarding, firewall, config.
restore_router_mode(w, state) ==
  IF state.lan_cidr = None THEN Refused(w, "InvalidCidr")
  ELSE Done([w EXCEPT
               !.ip_forward = TRUE,
               !.firewall = enable_router_mode_firewall(@, TheOne(state.lan_cidr)),
               !.cfg = [mode |-> "router", lan_cidr |-> state.lan_cidr]])

\* Host arm: nothing when the config says Host already.
restore_host_mode(w) ==
  IF w.cfg.mode = "host" THEN Done(w)
  ELSE Done([w EXCEPT !.ip_forward = FALSE,
                      !.cfg = [mode |-> "host", lan_cidr |-> None]])

\* The cleaned state is saved, then the mode it names is restored.
restore_valid_state(w, state) ==
  IF state.last_mode = "router"
    THEN restore_router_mode([w EXCEPT !.sys.ms = Some(state)], state)
    ELSE restore_host_mode([w EXCEPT !.sys.ms = Some(state)])

\* The loaded state is validated against the peers of the config other than
\* this peer; a state none of whose peers is in the config is cleared.
initialize_loaded_state(w, state, current_peer_ids) ==
  IF ~validate_persisted_state(state, current_peer_ids)
    THEN Done([w EXCEPT !.sys.ms = None])
    ELSE restore_valid_state(w, cleanup_persisted_state(state, current_peer_ids))

\* initialize_mode_on_startup on the outcome of load_mode_state.
initialize_mode(w, loaded) ==
  IF ~loaded.ok
    THEN [r |-> Refused(w, "PersistenceError"), bytes |-> loaded.bytes]
  ELSE IF loaded.state = None
    THEN [r |-> Done([w EXCEPT !.sys.ms = loaded.file]), bytes |-> loaded.bytes]
  ELSE [r |-> initialize_loaded_state(w, TheOne(loaded.state),
                                      DOMAIN w.net.peers \ {ThisPeer}),
        bytes |-> loaded.bytes]

initialize_mode_on_startup(w, bytes) ==
  initialize_mode(w, load_mode_state(w.sys.ms, bytes))

\* run_agent: the config is read from conf.yml, the statics of the health
\* monitor are new, the mode is restored; an error is logged only.
Startup ==
  \E i \in {initialize_mode_on_startup(
               World(cfg, confYml.network, CurSys, ipForward, firewall),
               stateBytes)} :
     /\ Served
     /\ cfg' = i.r.w.cfg
     /\ network' = confYml.network
     /\ updatedAt' = confYml.updated_at
     /\ SetSys(i.r.w.sys)
     /\ ipForward' = i.r.w.ip_forward
     /\ firewall' = i.r.w.firewall
     /\ stateBytes' = i.bytes
     /\ resp' = [op |-> "startup", arg |-> "",
                 status |-> IF i.r.ok THEN 200 ELSE 500]
     /\ cache' = <<>>
     /\ failures' = <<>>
     /\ pingTail' = <<>>
     /\ tracker' = None
     /\ pending' = <<>>
     /\ UNCHANGED <<raceVars, confYml, wgUp, now, failedPings, upd, onlineSince,
                    owed, stalePrimary, wgConf,
                 pingHistory>>

\* The state file is damaged on disk (a crash in the middle of a write, a
\* full disk, a bad sector).
CorruptStateFile(damage) ==
  /\ stateBytes = "json"
  /\ stateBytes' = damage
  /\ ms' = None
  /\ UNCHANGED <<raceVars, confVars, cfg, network, rules, routes, wg, wgUp,
                 ipForward, firewall, now, requests, resp, exitCalls,
                 monitorVars, owed, stalePrimary, wgConf,
                 pingHistory>>

\* conf.yml is edited by hand: a peer and its connections are taken out.
EditConfYml(peer_id) ==
  /\ peer_id \in DOMAIN confYml.network.peers \ {ThisPeer}
  /\ confYml' =
       [confYml EXCEPT
          !.network.peers = [q \in DOMAIN @ \ {peer_id} |-> @[q]],
          !.network.connections =
             [c \in {d \in DOMAIN @ : peer_id \notin {d.a, d.b}} |-> @[c]]]
  /\ UNCHANGED <<raceVars, bootVars, updatedAt, cfg, network, ms, rules, routes,
                 wg, wgUp, ipForward, firewall, now, requests, resp, exitCalls,
                 monitorVars, owed, stalePrimary>>

InitStartup == StartIn(FreshWorld) \/ StartIn(RouterWorld)

\* Restarts of the agent among mode switches, peer and LAN-access changes,
\* with the files damaged or edited in between.  The API is served while the
\* state file is readable.
NextStartup ==
  \/ Startup
  \/ \E damage \in StateFileDamage : CorruptStateFile(damage)
  \/ \E p \in ConfigPeers : EditConfYml(p)
  \/ stateBytes = "json"
       /\ \E t \in {"host", "router"} : ToggleMode(t, Some(<<LanCidrs[1]>>), "none")
  \/ stateBytes = "json"
       /\ \E p \in ConfigPeers, a \in ConfigAddresses :
            PatchNetworkConfig(AddPeerReq(p, a))
  \/ stateBytes = "json"
       /\ \E p \in ConfigPeers : PatchNetworkConfig(RemovePeerReq(p))
  \/ stateBytes = "json"
       /\ \E p \in ConfigPeers : SetPeerLanAccess(p, FALSE)

SpecStartup == InitStartup /\ [][NextStartup]_vars

\* -------------------------------------------------------- ping history

\* The peers whose health is checked, and how often each is pinged.
PingPeers == {"A", "B"}
MaxPings == 62
MaxOtherPings == 3

PingBudget(peer_id) == IF peer_id = "A" THEN MaxPings ELSE MaxOtherPings

\* Of every period pings of a peer the first fails are lost.
PingPatterns ==
  {[period |-> 1, fails |-> 0], [period |-> 1, fails |-> 1],
   [period |-> 2, fails |-> 1], [period |-> 3, fails |-> 1],
   [period |-> 3, fails |-> 2], [period |-> 7, fails |-> 3]}

\* The n-th ping of a peer: its round trip, or None when it is lost.
PingOutcome(pattern, peer_id, n) ==
  IF (n % pattern.period) < pattern.fails THEN None
  ELSE Some(PingLatency[peer_id])

PingResult(timestamp, latency_ms) ==
  [timestamp |-> timestamp, latency_ms |-> latency_ms]

PeerHistory(history, peer_id) ==
  IF peer_id \in DOMAIN history THEN history[peer_id] ELSE <<>>

\* A trimming that drops the newest entries instead of the oldest.
keep_oldest(peer_history) ==
  IF Len(peer_history) > PING_HISTORY_SIZE
    THEN SubSeq(peer_history, 1, PING_HISTORY_SIZE)
    ELSE peer_history

\* while peer_history.len() > PING_HISTORY_SIZE { peer_history.pop_front(); }
RECURSIVE trim_history(_)
trim_history(peer_history) ==
  IF Len(peer_history) > PING_HISTORY_SIZE
    THEN trim_history(Tail(peer_history))
    ELSE peer_history

\* The result is appended to the peer's history, which is then trimmed.
push_ping(history, peer_id, result) ==
  (peer_id :> trim_history(Append(PeerHistory(history, peer_id), result)))
    @@ history

\* The f64 loss percentage is kept to LossScale-ths of a percent.
LossScale == 1000

FailedPings(history) ==
  Cardinality({i \in DOMAIN history : history[i].latency_ms = None})

\* The loss part of calculate_loss_and_jitter: None for an empty history,
\* otherwise failed_pings / total_pings * 100.
calculate_loss(history) ==
  IF history = <<>> THEN None
  ELSE Some((FailedPings(history) * 100 * LossScale) \div Len(history))

\* A health check of the peer whose `wg show dump` succeeds: the peer is
\* pinged, the result is recorded and the loss is computed from the history.
PingCheck(peer_id) ==
  /\ Len(PeerHistory(pingHistory.sent, peer_id)) < PingBudget(peer_id)
  /\ \E n \in {Len(PeerHistory(pingHistory.sent, peer_id)) + 1} :
     \E result \in {PingResult(n, PingOutcome(pingHistory.pattern, peer_id, n))} :
     \E history \in {push_ping(pingHistory.history, peer_id, result)} :
       pingHistory' =
         [pingHistory EXCEPT
            !.history = history,
            !.sent = (peer_id :> Append(PeerHistory(@, peer_id), result)) @@ @,
            !.health = Some([peer_id |-> peer_id, pinged |-> TRUE,
                             packet_loss_percent |->
                               calculate_loss(history[peer_id])])]
  /\ UNCHANGED <<raceVars, confVars, monitorVars, stateBytes, wgConf, cfg,
                 network, ms, rules, routes, wg, wgUp, ipForward, firewall,
                 now, requests, resp, exitCalls, owed, stalePrimary>>

\* A health check whose `wg show dump` fails: the peer is not pinged and the
\* loss is computed from the history as it is.
PingCheckNoDump(peer_id) ==
  /\ pingHistory.health # Some([peer_id |-> peer_id, pinged |-> FALSE,
                               packet_loss_percent |->
                                 IF peer_id \in DOMAIN pingHistory.history
                                   THEN calculate_loss(
                                          pingHistory.history[peer_id])
                                   ELSE None])
  /\ pingHistory' =
       [pingHistory EXCEPT
          !.health = Some([peer_id |-> peer_id, pinged |-> FALSE,
                           packet_loss_percent |->
                             IF peer_id \in DOMAIN pingHistory.history
                               THEN calculate_loss(pingHistory.history[peer_id])
                               ELSE None])]
  /\ UNCHANGED <<raceVars, confVars, monitorVars, stateBytes, wgConf, cfg,
                 network, ms, rules, routes, wg, wgUp, ipForward, firewall,
                 now, requests, resp, exitCalls, owed, stalePrimary>>

InitPing ==
  /\ StartLoaded(RouterWorld)
  /\ stateBytes = "json"
  /\ wgConf = NoWgConf
  /\ pingHistory \in {[NoPingHistory EXCEPT !.pattern = p] : p \in PingPatterns}

NextPing ==
  \/ \E p \in PingPeers : PingCheck(p)
  \/ \E p \in PingPeers : PingCheckNoDump(p)

SpecPing == InitPing /\ [][NextPing]_vars

\* ------------------------------------ routes after the interface is up

\* The function without its check of the interface.
restore_without_interface_check(sys, net) ==
  IF sys.ms = None THEN Ok(sys)
  ELSE IF TheOne(sys.ms).last_mode # "router" THEN Ok(sys)
  ELSE LET r == restore_peers(sys, TheOne(sys.ms), OtherPeerSeq(net), net)
       IN Ok([restore_exit_node(r.sys, net) EXCEPT !.ms = Some(r.state)])

\* The restoration once the interface is known to exist: tables and rules of
\* the peers, the exit node, and the save of the function's copy of the state.
restore_existing_interface(sys, state, net) ==
  LET r == restore_peers(sys, state, OtherPeerSeq(net), net)
  IN Ok([restore_exit_node(r.sys, net) EXCEPT !.ms = Some(r.state)])

\* restore_peer_routes_after_interface_up: nothing without a Router state, a
\* state without any peer of the config is cleared, and `ip link show` must
\* find the interface before anything is installed.
restore_peer_routes_after_interface_up(sys, net) ==
  IF sys.ms = None THEN Ok(sys)
  ELSE IF TheOne(sys.ms).last_mode # "router" THEN Ok(sys)
  ELSE IF ~validate_persisted_state(TheOne(sys.ms), DOMAIN net.peers \ {ThisPeer})
    THEN Ok([sys EXCEPT !.ms = None])
  ELSE IF ~sys.up THEN Err(sys, "RoutingError")
  ELSE restore_existing_interface(
         sys, cleanup_persisted_state(TheOne(sys.ms),
                                      DOMAIN net.peers \ {ThisPeer}), net)

\* A call of restore_peer_routes_after_interface_up.
RestorePeerRoutes ==
  \E r \in {restore_peer_routes_after_interface_up(CurSys, network)} :
     /\ Served
     /\ SetSys(r.sys)
     /\ resp' = [op |-> "restore_peer_routes", arg |-> r.err,
                 status |-> IF r.ok THEN 200 ELSE 500]
     /\ owed' = {}
     /\ UNCHANGED <<bootVars, raceVars, confVars, cfg, network, wgUp, ipForward,
                    firewall, now, monitorVars, stalePrimary>>

\* Restarts of the agent in Router Mode with the interface present or not,
\* among changes of the peers and their connections.
NextRestart ==
  \/ Startup
  \/ \E p \in ConfigPeers : EditConfYml(p)
  \/ stateBytes = "json"
       /\ \E p \in ConfigPeers, a \in ConfigAddresses :
            PatchNetworkConfig(AddPeerReq(p, a))
  \/ stateBytes = "json"
       /\ \E p \in ConfigPeers, ab \in IpSets :
            PatchNetworkConfig(AddConnectionReq(p, ab, ab))
  \/ stateBytes = "json"
       /\ \E p \in ConfigPeers : PatchNetworkConfig(RemovePeerReq(p))
  \/ stateBytes = "json" /\ PostWireguardStatusDown
  \/ stateBytes = "json" /\ RestorePeerRoutes

SpecRestart == Init /\ [][NextRestart]_vars

\* ------------------------------------------- exit node and allowed-ips

\* Allowed-ips lists of one side of a connection.
ExitIpSets == {{}, {DefaultRoute}, {DefaultRoute, "192.168.50.0/24"}}

\* Router Mode: peers are added, connections to the router are added and
\* changed with a list per side, and exit nodes are selected.
NextExit ==
  \/ \E p \in ConfigPeers, a \in ConfigAddresses :
       PatchNetworkConfig(AddPeerReq(p, a))
  \/ \E p \in ConfigPeers, ab \in ExitIpSets, ba \in ExitIpSets :
       PatchNetworkConfig(AddConnectionReq(p, ab, ba))
  \/ \E p \in ConfigPeers, ab \in ExitIpSets, ba \in ExitIpSets :
       PatchNetworkConfig(ChangeConnectionReq(p, ab, ba))
  \/ \E p \in ConfigPeers : UpdatePeerRouteStatus(p)

SpecExit == Init /\ [][NextExit]_vars

\* The response of the PATCH handler to a change sum in the current state.
Patched(change_sum) ==
  patch_network_config(network, CurSys, cfg.mode, now, change_sum)

Accepted == IsPatch /\ resp'.status = 200

ConnectionsJoinPeers(net) ==
  \A c \in DOMAIN net.connections :
     /\ c.a \in DOMAIN net.peers
     /\ c.b \in DOMAIN net.peers
     /\ c.a # c.b

RemovesEndOfAddedConnection(change_sum) ==
  \E i \in 1..Len(change_sum.added_connections) :
     {change_sum.added_connections[i].id.a, change_sum.added_connections[i].id.b}
       \cap Range(change_sum.removed_peers) # {}

AcceptedKeepsConnections(change_sum, r) ==
  r.status = 200 =>
    /\ ConnectionsJoinPeers(r.net)
    /\ \A p \in Range(change_sum.removed_peers) :
         \A c \in DOMAIN r.net.connections : p \notin {c.a, c.b}
    /\ ~RemovesEndOfAddedConnection(change_sum)

\* C21: after every accepted change sum every connection joins two different
\* peers of the network. A removed peer takes its connections with it, and a
\* change sum that removes a peer and adds a connection to it is not accepted.
C21_ConnectionsJoinPeers ==
  /\ ConnectionsJoinPeers(network)
  /\ \A cs \in NetworkRequests : AcceptedKeepsConnections(cs, Patched(cs))

\* Peer A has a connection to the router: removing A is accepted and removes
\* the connection, removing A and connecting it in one change sum is not.
C21_Witness ==
  /\ get_connection_id(ThisPeer, "A") \in DOMAIN network.connections
  /\ Patched(RemovePeerReq("A")).status = 200
  /\ get_connection_id(ThisPeer, "A")
       \notin DOMAIN Patched(RemovePeerReq("A")).net.connections
  /\ Patched(RemoveAndConnectReq("A")).status = 400

\* This peer is in the network with the scripts it started with.
ThisPeerKept(net) ==
  /\ ThisPeer \in DOMAIN net.peers
  /\ net.peers[ThisPeer].scripts = FreshWorld.net.peers[ThisPeer].scripts

TouchesThisPeer(change_sum) ==
  \/ ThisPeer \in Range(change_sum.removed_peers)
  \/ \E i \in 1..Len(change_sum.changed_peers) :
       /\ change_sum.changed_peers[i].id = ThisPeer
       /\ change_sum.changed_peers[i].scripts # None

\* The change sum without what it asks of this peer's entry.
SparingThisPeer(change_sum) ==
  [change_sum EXCEPT
     !.removed_peers = SelectSeq(@, LAMBDA p : p # ThisPeer),
     !.changed_peers =
        [i \in 1..Len(@) |->
           IF @[i].id = ThisPeer THEN [@[i] EXCEPT !.scripts = None] ELSE @[i]]]

\* Rejected with 403, or with the 4xx that the rest of the change sum gets
\* by itself; nothing is saved and this peer's entry is kept.
RejectedForThisPeer(r, rest) ==
  /\ r.status \in 400..499
  /\ r.status = 403 \/ r.status = rest.status
  /\ ThisPeerKept(r.net)

ReservedForAnother(a, q) ==
  /\ a \in DOMAIN confYml.network.reservations
  /\ confYml.network.reservations[a].valid_until > now
  /\ confYml.network.reservations[a].peer_id # q

\* C23: while the reservation of an address for a peer id has not expired,
\* no accepted change sum adds a peer with that address under another id,
\* and the address of a peer that was added is not reserved afterwards.
C23_ReservationBlocksOthers ==
  [][Accepted =>
       \A q \in DOMAIN network'.peers \ DOMAIN network.peers :
          /\ ~ReservedForAnother(network'.peers[q].address, q)
          /\ network'.peers[q].address \notin DOMAIN network'.reservations]_vars

\* router_mode_state.json exists and records Router Mode.
RouterStatePersisted(file) == file # None /\ TheOne(file).last_mode = "router"

\* C27: when a mode switch or lan_cidr update has returned, with success or
\* with an error, the config's router.mode is router exactly when a persisted
\* mode state with last_mode = Router exists.
C27_ConfigModeMirrorsState ==
  [][IsToggle => (cfg'.mode = "router" <=> RouterStatePersisted(ms'))]_vars

\* The comma-separated list names a CIDR, and every CIDR of it is valid.
EveryCidrValid(segments) ==
  /\ parse_lan_cidrs(segments) # <<>>
  /\ \A k \in 1..Len(parse_lan_cidrs(segments)) :
        parse_lan_cidrs(segments)[k] \in WellFormedCidrs

\* C28: with every command succeeding, a switch from Host to Router is
\* accepted exactly when the network has at most one peer and every CIDR of
\* lan_cidr is valid; a list of several valid CIDRs is accepted.
C28_HostToRouterAccepted ==
  cfg.mode = "host" =>
    \A l \in LanInputs \ {None} :
       switch_mode(CurWorld, "router", l).ok
         <=> /\ Cardinality(DOMAIN network.peers) <= 1
             /\ EveryCidrValid(TheOne(l))

\* The rules that the LAN exception block of set_exit_node_impl adds for an
\* exit node of this table id, in the current state.
LanExceptionRules(table_id) ==
  {c.r : c \in {x \in Range(LanExceptionCmds(parse_ip_rules(rules), TheOne(ms),
                                            network, ExitPriority(table_id))) :
                  x.op = "add"}}

SampleTableIds == {TABLE_ID_MIN, TABLE_ID_MIN + 1, TABLE_ID_MIN + 999,
                   TABLE_ID_MIN + 1000, TABLE_ID_MAX}

\* C29: every LAN exception rule that set_exit_node installs (LAN to LAN and
\* per-peer WG to LAN) has a priority number below both exit rules of the
\* exit node and above every specific-route rule.
C29_LanExceptionsBetweenBands ==
  ms # None =>
    \A t \in SampleTableIds : \A r \in LanExceptionRules(t) :
       /\ r.priority < ExitPriority(t)
       /\ r.priority < ExitPriority(t) + 1
       /\ \A u \in SampleTableIds : r.priority > PBR_PRIORITY_BASE + (u % 1000)

\* The kernel state a peer's route update works on: the routes of its table
\* and the ip rules.
KernelState(sys, table_id) ==
  [routes |-> {r \in sys.routes : r[1] = table_id}, rules |-> Range(sys.rules)]

\* install_peer_routes with the peer's advertised routes, in the current state.
RoutesInstalled(peer_id) ==
  install_peer_routes(CurSys, TheOne(get_peer_table_id(ms, peer_id)),
                      get_peer_advertised_routes(peer_id, network))

\* C30: for a peer with a routing table, update_peer_routes after
\* install_peer_routes with the same advertised routes leaves the routes of
\* the peer's table and the ip rules as install_peer_routes left them.
C30_UpdateAfterInstallNoOp ==
  \A p \in DOMAIN network.peers :
     get_peer_table_id(ms, p) # None =>
       KernelState(update_peer_routes(RoutesInstalled(p), p, network),
                   TheOne(get_peer_table_id(ms, p)))
         = KernelState(RoutesInstalled(p), TheOne(get_peer_table_id(ms, p)))

\* The agent has started in this step.
IsStartup == requests' = requests + 1 /\ resp'.op = "startup"

\* C25: a startup that finds a zero-byte or unparsable state file deletes
\* the file, has no state, and changes neither forwarding, the firewall, the
\* ip rules, the routes nor the allowed-ips.
C25_CorruptStateFileDeleted ==
  [][(IsStartup /\ stateBytes \in StateFileDamage)
     => /\ stateBytes' = "json" /\ ms' = None
        /\ ipForward' = ipForward /\ firewall' = firewall
        /\ rules' = rules /\ routes' = routes /\ wg' = wg]_vars

\* The peer ids a ModeState refers to.
StateRefs(state) ==
  DOMAIN state.peer_table_ids
  \cup ActivePeer(state)
  \cup UNION {Range(state.prefix_active_backup[k].backup_peer_ids) :
               k \in DOMAIN state.prefix_active_backup}
  \cup DOMAIN state.peer_lan_access
  \cup DOMAIN state.peer_last_online_state
  \cup state.primary_exit_node

\* C26: after the startup validation of a persisted ModeState every peer id
\* it still refers to is a peer of the network; a state with persisted peers
\* none of which is in the network is cleared.
C26_StartupPrunesOrphans ==
  [][(IsStartup /\ stateBytes = "json" /\ ms # None)
     => /\ ms' # None => StateRefs(TheOne(ms')) \subseteq DOMAIN network'.peers
        /\ (/\ DOMAIN TheOne(ms).peer_table_ids # {}
            /\ DOMAIN TheOne(ms).peer_table_ids \cap DOMAIN network'.peers = {})
           => ms' = None]_vars

\* The texts of a side's allowed-ips other than 0.0.0.0/0 and default.
OtherThanDefault(allowed_ips) ==
  {to_string(allowed_ips[k]) : k \in 1..Len(allowed_ips)}
    \ {"0.0.0.0/0", "default"}

\* The allowed-ips that the network gives the peer towards the other peer.
ConfiguredAllowedIps(network_, peer_id, other) ==
  SideAllowedIps(network_, get_connection_id(peer_id, other), peer_id)

\* C24: no [Peer] section of a generated stripped config has an AllowedIPs
\* entry equal to 0.0.0.0/0 or default, and a section whose list is empty
\* after that filtering lists exactly the other side's address/32.
C24_StrippedConfigWithoutDefault ==
  (wgConf.out # None /\ wgConf.stripped /\ TheOne(wgConf.out).ok) =>
    \A i \in 1..Len(TheOne(wgConf.out).sections) :
       /\ Range(TheOne(wgConf.out).sections[i].allowed_ips)
            \cap {"0.0.0.0/0", "default"} = {}
       /\ OtherThanDefault(
            ConfiguredAllowedIps(wgConf.network, wgConf.peer_id,
                                 TheOne(wgConf.out).sections[i].peer)) = {}
          => TheOne(wgConf.out).sections[i].allowed_ips =
               <<wgConf.network.peers[
                   TheOne(wgConf.out).sections[i].peer].address \o "/32">>

\* The stripped config of the router whose connection to A allows only the
\* default route, twice: the section lists the address of A.
C24_Witness ==
  /\ wgConf.out # None /\ wgConf.stripped /\ TheOne(wgConf.out).ok
  /\ wgConf.peer_id = ThisPeer
  /\ ConfiguredAllowedIps(wgConf.network, ThisPeer, "A")
       = <<Ipv4Net("0.0.0.0", 0), Ipv4Net("0.0.0.0", 0)>>
  /\ wgConf.network.connections[get_connection_id(ThisPeer, "A")].enabled
  /\ TheOne(wgConf.out).sections = <<[peer |-> "A", allowed_ips |-> <<"10.0.0.2/32">>]>>

\* The newest entries of a peer's pings, PING_HISTORY_SIZE at most.
RecentPings(sent) ==
  SubSeq(sent, IF Len(sent) > PING_HISTORY_SIZE
                 THEN Len(sent) - PING_HISTORY_SIZE + 1 ELSE 1, Len(sent))

\* C39: a peer's ping history never holds more than 60 entries, it is the
\* sequence of that peer's most recent ping results, and the loss reported by
\* a health check is the failed entries over the entries of the history, times
\* 100 (and none while the history is empty).
C39_PingHistoryRecentAndLoss ==
  /\ \A p \in DOMAIN pingHistory.history :
       /\ Len(pingHistory.history[p]) <= 60
       /\ pingHistory.history[p] = RecentPings(pingHistory.sent[p])
  /\ \A h \in pingHistory.health :
       LET recent == RecentPings(PeerHistory(pingHistory.sent, h.peer_id))
           failed == {i \in DOMAIN recent : recent[i].latency_ms = None}
       IN h.packet_loss_percent =
            IF Len(recent) = 0 THEN None
            ELSE Some((Cardinality(failed) * 100 * LossScale) \div Len(recent))

\* More than 60 pings of a peer were made, some lost and some answered, and
\* the last check pinged it.
C39_Witness ==
  /\ "A" \in DOMAIN pingHistory.sent
  /\ Len(pingHistory.sent["A"]) > 60
  /\ pingHistory.pattern.fails \in 1..(pingHistory.pattern.period - 1)
  /\ \E h \in pingHistory.health : h.peer_id = "A" /\ h.pinged

\* C37: a health update whose failover call of set_exit_node fails leaves
\* primary_exit_node as it was.
C37_FailedFailoverKeepsPrimary ==
  [][(/\ IsHealthUpdate
      /\ upd'.act = "failover"
      /\ exitCalls' # <<>>
      /\ ~exitCalls'[1].ok)
     => get_primary_exit_node(ms') = get_primary_exit_node(ms)]_vars

\* The CIDRs the model knows that are not part of the persisted lan_cidr.
DroppedLanCidrs(file) ==
  Range(LanCidrs) \ (IF file = None THEN {} ELSE Range(LanCidrsOf(TheOne(file))))

\* C38: after an accepted update of lan_cidr in Router Mode to a list that
\* still names a CIDR, no MASQUERADE rule and no ip rule towards the main
\* table remains for a CIDR that is no longer part of lan_cidr.
C38_LanUpdateDropsOldCidrs ==
  [][(/\ IsToggle
      /\ cfg.mode = "router"
      /\ resp'.arg = "router"
      /\ resp'.status = 200
      /\ DroppedLanCidrs(ms') # Range(LanCidrs))
     => \A c \in DroppedLanCidrs(ms') :
          /\ <<"nat", c>> \notin firewall'
          /\ \A i \in 1..Len(rules') :
               ~(rules'[i].to = c /\ rules'[i].lookup = "main")]_vars

\* C35: the peer recorded as active exit node is a peer of the current
\* network other than this peer, has a table id in peer_table_ids, and
\* advertises a default route.
C35_ExitNodeIsUsable ==
  \A p \in get_exit_node(ms) :
    /\ p \in DOMAIN network.peers \ {ThisPeer}
    /\ p \in DOMAIN TheOne(ms).peer_table_ids
    /\ p \in Range(get_peers_with_default_route(network))

\* C33: after a successful set_exit_node(P), and after a successful PATCH
\* (which ends with sync_conf) while P is the exit node, and P has a
\* connection with this peer, WireGuard's allowed-ips of P are those the
\* stripped config of this peer lists for P, plus 0.0.0.0/0.
C33_ExitAllowedIpsFromStrippedConfig ==
  \A p \in get_exit_node(ms) :
    (/\ wgUp
     /\ resp.status = 200
     /\ \/ resp.op = "patch_network_config"
        \/ resp.op = "update_peer_route_status" /\ resp.arg = p
     /\ p \in DOMAIN network.peers)
    => \A c \in ConnWithThis(p, network) :
         /\ p \in DOMAIN wg
         /\ wg[p] = StrippedAllowedIps(c, network) \cup {DefaultRoute}

\* The specific-route PBR rules of a table: its rules below the exit band.
SpecificRouteRules(rs, table_id) ==
  {rs[i].to : i \in {j \in 1..Len(rs) : /\ rs[j].lookup = ToString(table_id)
                                        /\ rs[j].priority < EXIT_PRIORITY_BASE}}

\* C34: in Router Mode, after an accepted PATCH that removes a connection,
\* the routing table and the specific-route PBR rules of each endpoint other
\* than this peer hold exactly the routes the peer advertises in the network
\* without that connection.
C34_RemovedConnectionRoutes ==
  [][(IsPatch /\ resp'.status = 200 /\ cfg.mode = "router" /\ wgUp)
     => \A c \in DOMAIN network.connections \ DOMAIN network'.connections :
        \A p \in ({c.a, c.b} \ {ThisPeer}) \cap DOMAIN network'.peers :
        \A t \in get_peer_table_id(ms', p) :
          /\ {r[2] : r \in {x \in routes' : x[1] = t}}
               = {x \in get_peer_advertised_routes(p, network') :
                    validate_route(x)}
          /\ SpecificRouteRules(rules', t)
               = get_peer_advertised_routes(p, network') \ {DefaultRoute}]_vars

\* restore_peer_routes_after_interface_up has been called in this step.
IsRestore == requests' = requests + 1 /\ resp'.op = "restore_peer_routes"

\* The rules of a sequence that look up a peer's table.
TableRules(rs) == {rs[i] : i \in {j \in 1..Len(rs) : rs[j].lookup # "main"}}

\* C31: while the WireGuard interface is absent, a startup in Router Mode and
\* a call of restore_peer_routes_after_interface_up install no route and no
\* rule of a peer's table, and the call returns an error.
C31_NothingBeforeInterface ==
  [][(/\ IsStartup \/ IsRestore
      /\ ~wgUp
      /\ ms # None
      /\ TheOne(ms).last_mode = "router")
     => /\ routes' \subseteq routes
        /\ TableRules(rules') \subseteq TableRules(rules)
        /\ IsRestore => resp'.status = 500]_vars

\* restore_peer_routes_after_interface_up has returned its error in Router
\* Mode with a peer that has a table and the interface absent.
C31_Witness ==
  /\ resp.op = "restore_peer_routes"
  /\ resp.status = 500
  /\ ~wgUp
  /\ ms # None
  /\ DOMAIN TheOne(ms).peer_table_ids \cap DOMAIN network.peers # {}

\* No handler is between its load and its save of the mode state.
HandlersIdle == \A t \in DOMAIN pc : pc[t] = "idle"

\* C32: no update of the mode state is lost: once the handlers that ran
\* concurrently have returned, a peer that was given a table id and has stayed
\* in the network has a table id in the persisted state.
C32_NoLostTableId ==
  HandlersIdle =>
    \A p \in DOMAIN firstTable \cap DOMAIN network.peers :
      p \in DOMAIN PeerTableIds

\* The cached health of a peer is online.
CachedOnline(p) == p \in DOMAIN cache /\ cache[p].is_online

\* C36: with auto-failover on, when the exit node is offline and another
\* peer that advertises the default route is online, then, unless that peer
\* goes offline again or auto-failover is switched off, the exit node
\* eventually is a peer that is online.
C36_FailoverEventually ==
  \A e \in PeerIds : \A q \in PeerIds \ {e} :
    (/\ ms # None
     /\ get_auto_failover(ms)
     /\ get_exit_node(ms) = Some(e)
     /\ e \in DOMAIN cache /\ ~cache[e].is_online
     /\ \E i \in DOMAIN get_peers_with_default_route(network) :
          get_peers_with_default_route(network)[i] = q
     /\ CachedOnline(q))
    ~> (\/ ms = None
        \/ ~get_auto_failover(ms)
        \/ \E x \in PeerIds :
             get_exit_node(ms) = Some(x) /\ CachedOnline(x)
        \/ ~CachedOnline(q))

====
